---- MODULE Spec2Model ----
(***************************************************************************)
(* Model of the storage core of chat_ui_test: the schema-migration engine  *)
(* (src/infrastructure/database/migrator.py), the connection manager       *)
(* (src/infrastructure/database/connection.py) and the user / message      *)
(* repositories (src/infrastructure/repositories).                         *)
(*                                                                         *)
(* Migration files are named by the numbers 1..MaxFiles; the numeric order *)
(* of a number is the lexical order of the filename it stands for.         *)
(***************************************************************************)
EXTENDS Integers, Sequences, FiniteSets, TLC

\* ------------------------------------------------------------------ bounds
MaxFiles == 3      \* migration files that may exist in the directory
NumStmts == 2      \* statements of a migration script
MaxRuns  == 2      \* calls of migrate() in one behaviour
NumTasks == 2      \* asyncio tasks
MaxCalls == 3      \* calls on the connection manager in one behaviour
MaxConnFiles == 1  \* migration files in the directory the connection manager uses
MaxUserId == 2     \* largest id a caller presets on an entity it saves
MaxRepoCalls == 4  \* calls on a repository in one behaviour
MaxTime == 2       \* timestamps of messages are 1..MaxTime
MaxPage == 2       \* largest limit and largest offset of a page
MaxMsgId == 1      \* largest id a caller presets on a message it saves
NumRepos == 2      \* repositories built on AsyncSQLiteRepositoryBase
MaxPoolCalls == 3  \* operations on those repositories in one behaviour
MaxPrimCalls == 2  \* calls of a primitive in one behaviour
MaxConcFiles == 2  \* migration files in the directory of interleaved migrate() calls
MaxBootCalls == 4  \* calls on the bootstrap functions in one behaviour
MaxTokens == 2     \* tokens a provider streams in one response
MaxSends == 2      \* calls of stream_response in one behaviour
NumConfigs == 2    \* AppConfig objects callers pass to init_database
MaxGlobalCalls == 3 \* calls of init_database / get_connection / close_connection
MaxRunCalls == 3   \* calls of run_migrations in one behaviour

FileIds == 1..MaxFiles
Tasks   == 1..NumTasks
SeqTasks == {1}    \* the task that calls migrate() where calls do not overlap

\* ------------------------------------------------------------------ state
VARIABLES
    \* the migrations directory
    dirExists,          \* migrations_dir.exists()
    listing,            \* the *.sql files in directory (creation) order
    failAt,             \* per file: 0 = the script runs, n = its n-th statement fails
    \* the database
    tableExists,        \* schema_migrations has been created
    schema_migrations,  \* set of rows [id, migration_id]
    stmtsDone,          \* per file: statements of its script that have taken effect
    \* one migrate() call per task
    pc,                 \* the task's position
    applied_migrations, \* local of migrate(): ids read from schema_migrations
    pending_migrations, \* local of migrate(): files still to apply, in order
    result,             \* how the task's last call ended
    errId,              \* the migration id named by the StorageError, 0 if none
    runLog,             \* scripts this call has executed, in order
    insLog,             \* bookkeeping rows this call has inserted, in order
    \* history of calls, kept to state the claims
    runsLeft,           \* calls of migrate() still allowed
    okSince,            \* a migrate() returned and the directory is unchanged since
    afterOk,            \* per task: okSince when its call started
    rows0,              \* per task: schema_migrations when its call started
    lastFail,           \* id the last finished call failed at, 0 if it returned
    afterFail,          \* per task: lastFail when its call started
    \* the connection manager (DatabaseConnection)
    lock,               \* self._lock: 0 when free, else the task holding it
    connection,         \* self._connection: 0 for None, else the connection's number
    connCount,          \* connections opened so far; they are numbered 1..connCount
    openConns,          \* the connections that are open
    opens,              \* connections opened since the manager last had none
    initMigrations,     \* migrate() calls of init() since the manager last had none
    op,                 \* the operation the task is in, or was last in
    held,               \* the connection the task has obtained, 0 for none
    callsLeft,          \* calls on the connection manager still allowed
    \* InMemoryUserRepository
    mem_users,          \* self._users: the dict as its items [id, username], in order
    user_next_id,       \* self._next_id
    memLast,            \* the last call on the repository and how it ended
    \* SQLiteUserRepository
    users_table,        \* rows [id, username] of the users table
    statements,         \* statements the repository has executed on its connection
    sqlLast,            \* per task: its last call on the repository and how it ended
    repoCallsLeft,      \* repository calls still allowed
    \* InMemoryMessageRepository
    mem_messages,       \* self._messages: the dict as its items, in order
    message_next_id,    \* self._next_id
    msgLast,            \* the last find_by_user_id and what it returned
    \* SQLiteMessageRepository
    sqlMsgLast,         \* the last call on the repository and how it ended
    \* repositories built on AsyncSQLiteRepositoryBase, sharing one connection
    checkSameThread,    \* the connection was made with check_same_thread=True
    poolQueue,          \* per repository: the tasks whose operation waits in its executor
    poolRunning,        \* per repository: the task whose operation its worker thread runs, or 0
    poolPc,             \* per task: "idle", or "waiting" for run_in_executor
    poolResult,         \* per task: how its last operation ended
    poolCallsLeft,      \* operations still allowed
    \* the repository primitives and the manager's execute / fetch_all / fetch_one
    primLast,           \* the last call: its inputs and its outcome
    \* the shared container (bootstrap.py)
    container,          \* _container: 0 for None, else the container's number
    containerCount,     \* containers built so far; they are numbered 1..containerCount
    builds,             \* build_container() calls started since the last reset
    received,           \* the containers callers have been handed since the last reset
    bootPc,             \* per task: "idle", or "building" inside get_container_async
    bootCallsLeft,      \* calls on the bootstrap functions still allowed
    \* SendMessageUseCase.stream_response, one call at a time
    message_repository, \* self._message_repository: the implementation passed in
    sendPc,             \* the position of the generator
    user_input,         \* the argument of the call
    persisted,          \* what the message repository holds: [role, content], in order
    persisted0,         \* Len(persisted) when the call started
    provider,           \* the provider in this call: "none", "streaming", "completed", "failed"
    response_chunks,    \* local of stream_response
    yielded,            \* the tokens the caller has received in this call
    sendResult,         \* how the call ended
    sendsLeft,          \* calls of stream_response still allowed
    \* the module-level connection (init_database / get_connection / close_connection)
    GLOBAL_CONFIG,      \* _GLOBAL_CONFIG: 0 for None, else the config
    GLOBAL_CONNECTION,  \* _GLOBAL_CONNECTION: 0 for None, else the connection's number
    CONNECTION_LOCK,    \* _CONNECTION_LOCK: 0 when free, else the task holding it
    globalCount,        \* connections opened so far; they are numbered 1..globalCount
    globalOpen,         \* the open connections: [id, path]
    globalPc,           \* per task: its position in the function it has called
    globalConfig,       \* per task: the config argument of its call, 0 for None
    globalResult,       \* per task: how its last call ended
    lastConnect,        \* the last aiosqlite.connect: the config passed to the call, the path
    globalCallsLeft,    \* calls of the three functions still allowed
    \* run_migrations
    runPc,              \* per task: its position in run_migrations
    migrations_dir,     \* per task: the directory its call migrates from
    runConnection,      \* per task: the local `connection`, 0 before it is assigned
    runCount,           \* connections run_migrations has opened; numbered 1..runCount
    runOpen,            \* those of them that are open
    runResult,          \* per task: how its last call ended
    runCallsLeft        \* calls of run_migrations still allowed

migVars == <<dirExists, listing, failAt, tableExists, schema_migrations, stmtsDone,
             pc, applied_migrations, pending_migrations,
             result, errId, runLog, insLog, runsLeft, okSince, afterOk, rows0,
             lastFail, afterFail>>

connVars == <<lock, connection, connCount, openConns, opens, initMigrations, op,
              held, callsLeft>>

\* what a step inside migrate() leaves alone in the connection manager
connStatic == <<connection, connCount, openConns, opens, initMigrations, op, callsLeft>>

userVars == <<mem_users, user_next_id, memLast, users_table, statements, sqlLast,
              repoCallsLeft>>

msgVars == <<mem_messages, message_next_id, msgLast, sqlMsgLast>>

poolVars == <<checkSameThread, poolQueue, poolRunning, poolPc, poolResult,
              poolCallsLeft>>

bootVars == <<container, containerCount, builds, received, bootPc, bootCallsLeft>>

\* the application around the database layer
sendVars == <<message_repository, sendPc, user_input, persisted, persisted0, provider, response_chunks,
              yielded, sendResult, sendsLeft>>

globalVars == <<GLOBAL_CONFIG, GLOBAL_CONNECTION, CONNECTION_LOCK, globalCount,
                globalOpen, globalPc, globalConfig, globalResult, lastConnect,
                globalCallsLeft>>

runVars == <<runPc, migrations_dir, runConnection, runCount, runOpen, runResult,
             runCallsLeft>>

appVars == <<bootVars, sendVars, globalVars, runVars>>

auxVars == <<poolVars, primLast, appVars>>

\* the repositories
repoVars == <<userVars, msgVars, auxVars>>

vars == <<migVars, connVars, userVars, msgVars, auxVars>>

dbVars == <<dirExists, listing, failAt, tableExists, schema_migrations, stmtsDone>>

localVars == <<applied_migrations, pending_migrations, runLog, insLog, afterOk,
               rows0, afterFail>>

histVars == <<runsLeft, okSince, lastFail>>

\* ---------------------------------------------------------------- helpers
Range(s) == {s[i] : i \in 1..Len(s)}

Max(S) == IF S = {} THEN 0 ELSE CHOOSE x \in S : \A y \in S : y <= x

Min(S) == CHOOSE x \in S : \A y \in S : x <= y

\* sorted(): the elements of a set of file ids in ascending (lexical) order
RECURSIVE SortedSeq(_)
SortedSeq(S) == IF S = {} THEN <<>> ELSE <<Min(S)>> \o SortedSeq(S \ {Min(S)})

\* the elements of sequence s that satisfy Keep, in the order of s
RECURSIVE FilterSeq(_, _)
FilterSeq(s, Keep) ==
    IF s = <<>> THEN <<>>
    ELSE IF Head(s) \in Keep THEN <<Head(s)>> \o FilterSeq(Tail(s), Keep)
    ELSE FilterSeq(Tail(s), Keep)

IsAscending(s) == \A i \in 1..Len(s) : \A j \in 1..Len(s) : i < j => s[i] < s[j]

\* all sequences without repetition over S
RECURSIVE Perms(_)
Perms(S) ==
    IF S = {} THEN {<<>>}
    ELSE UNION {{<<x>> \o t : t \in Perms(S \ {x})} : x \in S}

Listings == UNION {Perms(S) : S \in SUBSET FileIds}

AllIdle == \A t \in Tasks : pc[t] = "idle"

\* an Optional value: <<>> is None, <<v>> is the value v
None == <<>>

Some(v) == <<v>>
\* ------------------------------------------------- the migration engine
\* self.migrations_dir.glob("*.sql"): the files as the directory lists them
GlobSql == listing

\* mutant: the files are applied in directory order, the sort is missing
UnsortedMigrationFiles == GlobSql

\* sorted(...): the globbed files by filename
SortedMigrationFiles == SortedSeq(Range(GlobSql))

\* mutant: the applied ids are not read back
NoAppliedMigrations == {}

\* _get_applied_migrations(): SELECT migration_id FROM schema_migrations
get_applied_migrations == {r.migration_id : r \in schema_migrations}

\* mutant: applied files are not filtered out
UnfilteredPendingMigrations(applied) ==
    IF ~dirExists THEN <<>> ELSE SortedMigrationFiles

\* _get_pending_migrations(applied_migrations)
get_pending_migrations(applied) ==
    IF ~dirExists THEN <<>>
    ELSE FilterSeq(SortedMigrationFiles, FileIds \ applied)

\* mutant: the failure of a script is swallowed
ScriptNeverRaises(m) == FALSE

\* executescript(sql_content) raises on the script of file m
ScriptRaises(m) == failAt[m] # 0

\* statements of the script of m that take effect when it is executed now
ScriptEffect(m) == IF failAt[m] = 0 THEN NumStmts ELSE failAt[m] - 1

\* id INTEGER PRIMARY KEY AUTOINCREMENT
NextRowId == Max({r.id : r \in schema_migrations}) + 1

\* mutant: the migration_id column carries no UNIQUE constraint
NoUniqueConstraint(m) == FALSE

\* migration_id TEXT UNIQUE NOT NULL: the INSERT of m raises IntegrityError
UniqueViolation(m) == \E r \in schema_migrations : r.migration_id = m

\* get_migration_history(): SELECT ... ORDER BY id ASC, the migration_ids
RECURSIVE RowsById(_)
RowsById(rows) ==
    IF rows = {} THEN <<>>
    ELSE LET r == CHOOSE x \in rows : \A y \in rows : x.id <= y.id
         IN  <<r.migration_id>> \o RowsById(rows \ {r})

get_migration_history == RowsById(schema_migrations)

\* the call of task t goes on at position next
Continue(t, next) ==
    /\ pc' = [pc EXCEPT ![t] = next]
    /\ UNCHANGED <<result, errId, okSince, lastFail, lock, held>>

\* A call of task t ends with res. "async with self._lock" releases the lock
\* init() holds. get_connection() goes on after a returning init(): it raises
\* if self._connection is None and else yields it.
Return(t, res) ==
    /\ lock' = IF lock = t THEN 0 ELSE lock
    /\ IF op[t] = "get_connection" /\ res = "ok"
       THEN IF connection = 0
            THEN /\ pc' = [pc EXCEPT ![t] = "idle"]
                 /\ result' = [result EXCEPT ![t] = "StorageError"]
                 /\ UNCHANGED held
            ELSE /\ pc' = [pc EXCEPT ![t] = "in_block"]
                 /\ result' = [result EXCEPT ![t] = "none"]
                 /\ held' = [held EXCEPT ![t] = connection]
       ELSE /\ pc' = [pc EXCEPT ![t] = "idle"]
            /\ result' = [result EXCEPT ![t] = res]
            /\ UNCHANGED held

\* migrate() of task t returns (res = "ok") or raises StorageError naming id.
\* Called by init(), the exception passes init()'s except clause (StorageError
\* is no aiosqlite.Error); the connection reference stays as it is.
Finish(t, res, id) ==
    /\ errId' = [errId EXCEPT ![t] = id]
    /\ okSince' = (res = "ok")
    /\ lastFail' = IF res = "ok" THEN 0 ELSE id
    /\ Return(t, res)

\* a task calls migrate()
MigrateCall(t) ==
    /\ pc[t] = "idle"
    /\ runsLeft > 0
    /\ runsLeft' = runsLeft - 1
    /\ pc' = [pc EXCEPT ![t] = "ensure"]
    /\ applied_migrations' = [applied_migrations EXCEPT ![t] = {}]
    /\ pending_migrations' = [pending_migrations EXCEPT ![t] = <<>>]
    /\ result' = [result EXCEPT ![t] = "none"]
    /\ errId' = [errId EXCEPT ![t] = 0]
    /\ runLog' = [runLog EXCEPT ![t] = <<>>]
    /\ insLog' = [insLog EXCEPT ![t] = <<>>]
    /\ afterOk' = [afterOk EXCEPT ![t] = okSince]
    /\ rows0' = [rows0 EXCEPT ![t] = schema_migrations]
    /\ afterFail' = [afterFail EXCEPT ![t] = lastFail]
    /\ op' = [op EXCEPT ![t] = "migrate"]
    /\ UNCHANGED <<dirExists, listing, failAt, tableExists, schema_migrations,
                   stmtsDone, okSince, lastFail, lock, connection, connCount,
                   openConns, opens, initMigrations, held, callsLeft>>

\* migrate() called while no other call is running
SeqMigrateCall(t) == AllIdle /\ MigrateCall(t)

\* mutant: the table is not created
EnsureSkipsTable(t) ==
    /\ pc[t] = "ensure"
    /\ Continue(t, "read")
    /\ UNCHANGED <<dbVars, applied_migrations, pending_migrations, runLog, insLog,
                   runsLeft, afterOk, rows0, afterFail>>
    /\ UNCHANGED connStatic

\* _ensure_migrations_table(): CREATE TABLE IF NOT EXISTS, commit
EnsureMigrationsTable(t) ==
    /\ pc[t] = "ensure"
    /\ tableExists' = TRUE
    /\ Continue(t, "read")
    /\ UNCHANGED <<dirExists, listing, failAt, schema_migrations, stmtsDone,
                   applied_migrations, pending_migrations, runLog, insLog,
                   runsLeft, afterOk, rows0, afterFail>>
    /\ UNCHANGED connStatic

\* _get_applied_migrations(), _get_pending_migrations(); an empty loop returns
ReadPending(t) ==
    /\ pc[t] = "read"
    /\ LET pend == get_pending_migrations(get_applied_migrations)
       IN  /\ applied_migrations' =
                  [applied_migrations EXCEPT ![t] = get_applied_migrations]
           /\ pending_migrations' = [pending_migrations EXCEPT ![t] = pend]
           /\ IF pend = <<>> THEN Finish(t, "ok", 0) ELSE Continue(t, "script")
    /\ UNCHANGED <<dirExists, listing, failAt, tableExists, schema_migrations,
                   stmtsDone, runLog, insLog, runsLeft, afterOk, rows0, afterFail>>
    /\ UNCHANGED connStatic

\* _apply_migration(): read_text() and executescript()
ExecuteScript(t) ==
    /\ pc[t] = "script"
    /\ LET m == Head(pending_migrations[t])
       IN  /\ runLog' = [runLog EXCEPT ![t] = Append(@, m)]
           /\ stmtsDone' = [stmtsDone EXCEPT ![m] = Max({@, ScriptEffect(m)})]
           /\ IF ScriptRaises(m)
              THEN Finish(t, "StorageError", m)
              ELSE Continue(t, "insert")
    /\ UNCHANGED <<dirExists, listing, failAt, tableExists, schema_migrations,
                   applied_migrations, pending_migrations, insLog, runsLeft,
                   afterOk, rows0, afterFail>>
    /\ UNCHANGED connStatic

\* _apply_migration(): INSERT INTO schema_migrations (migration_id) VALUES (?)
InsertRow(t) ==
    /\ pc[t] = "insert"
    /\ LET m == Head(pending_migrations[t])
       IN  IF UniqueViolation(m)
           THEN /\ Finish(t, "StorageError", m)
                /\ UNCHANGED <<schema_migrations, insLog>>
           ELSE /\ schema_migrations' = schema_migrations \cup
                        {[id |-> NextRowId, migration_id |-> m]}
                /\ insLog' = [insLog EXCEPT ![t] = Append(@, m)]
                /\ Continue(t, "commit")
    /\ UNCHANGED <<dirExists, listing, failAt, tableExists, stmtsDone,
                   applied_migrations, pending_migrations, runLog, runsLeft,
                   afterOk, rows0, afterFail>>
    /\ UNCHANGED connStatic

\* _apply_migration(): commit(); then the next file, or migrate() returns
CommitRow(t) ==
    /\ pc[t] = "commit"
    /\ pending_migrations' = [pending_migrations EXCEPT ![t] = Tail(@)]
    /\ IF Tail(pending_migrations[t]) = <<>>
       THEN Finish(t, "ok", 0)
       ELSE Continue(t, "script")
    /\ UNCHANGED <<dirExists, listing, failAt, tableExists, schema_migrations,
                   stmtsDone, applied_migrations, runLog, insLog, runsLeft,
                   afterOk, rows0, afterFail>>
    /\ UNCHANGED connStatic

\* a new migration file m is written to the directory, between calls
AddFile(m) ==
    /\ AllIdle
    /\ dirExists
    /\ m \notin Range(listing)
    /\ listing' = Append(listing, m)
    /\ \E f \in 0..NumStmts : failAt' = [failAt EXCEPT ![m] = f]
    /\ okSince' = FALSE
    /\ lastFail' = 0
    /\ UNCHANGED <<dirExists, tableExists, schema_migrations, stmtsDone, pc,
                   applied_migrations, pending_migrations, result, errId, runLog,
                   insLog, runsLeft, afterOk, rows0, afterFail, connVars>>

\* the failing script of file m is repaired, between calls
FixFile(m) ==
    /\ AllIdle
    /\ m \in Range(listing)
    /\ failAt[m] # 0
    /\ failAt' = [failAt EXCEPT ![m] = 0]
    /\ okSince' = FALSE
    /\ UNCHANGED <<dirExists, listing, tableExists, schema_migrations, stmtsDone,
                   pc, applied_migrations, pending_migrations, result, errId,
                   runLog, insLog, runsLeft, afterOk, rows0, lastFail, afterFail,
                   connVars>>

InitTasks ==
    /\ pc = [t \in Tasks |-> "idle"]
    /\ applied_migrations = [t \in Tasks |-> {}]
    /\ pending_migrations = [t \in Tasks |-> <<>>]
    /\ result = [t \in Tasks |-> "none"]
    /\ errId = [t \in Tasks |-> 0]
    /\ runLog = [t \in Tasks |-> <<>>]
    /\ insLog = [t \in Tasks |-> <<>>]
    /\ afterOk = [t \in Tasks |-> FALSE]
    /\ rows0 = [t \in Tasks |-> {}]
    /\ afterFail = [t \in Tasks |-> 0]
    /\ okSince = FALSE
    /\ lastFail = 0

\* a fresh database and any migrations directory
InitMigrator ==
    /\ dirExists \in BOOLEAN
    /\ listing \in (IF dirExists THEN Listings ELSE {<<>>})
    /\ failAt \in [FileIds -> 0..NumStmts]
    /\ \A m \in FileIds : m \notin Range(listing) => failAt[m] = 0
    /\ tableExists = FALSE
    /\ schema_migrations = {}
    /\ stmtsDone = [m \in FileIds |-> 0]
    /\ runsLeft = MaxRuns

\* DatabaseConnection.__init__
InitConn ==
    /\ lock = 0
    /\ connection = 0
    /\ connCount = 0
    /\ openConns = {}
    /\ opens = 0
    /\ initMigrations = 0
    /\ op = [t \in Tasks |-> "none"]
    /\ held = [t \in Tasks |-> 0]
    /\ callsLeft = MaxCalls

\* InMemoryUserRepository() and SQLiteUserRepository(connection) on empty stores
InitUsers ==
    /\ mem_users = <<>>
    /\ user_next_id = 1
    /\ memLast = [n |-> 0, op |-> "none", name |-> "", kind |-> "none", id |-> 0]
    /\ users_table = {}
    /\ statements = 0
    /\ sqlLast = [t \in Tasks |-> [op |-> "none", name |-> "", kind |-> "none",
                                   stmts |-> 0, idKind |-> "none"]]
    /\ repoCallsLeft = MaxRepoCalls

\* InMemoryMessageRepository() and SQLiteMessageRepository(connection), empty
InitMessages ==
    /\ mem_messages = <<>>
    /\ message_next_id = 1
    /\ msgLast = [n |-> 0, user_id |-> 0, limit |-> 0, offset |-> 0, result |-> <<>>]
    /\ sqlMsgLast = [op |-> "none", kind |-> "none", stmts |-> 0,
                     idKind |-> "none", sent |-> None, got |-> None]

Repos == 1..NumRepos

\* the executors of the repositories are idle
InitPool ==
    /\ poolQueue = [i \in Repos |-> <<>>]
    /\ poolRunning = [i \in Repos |-> 0]
    /\ poolPc = [t \in Tasks |-> "idle"]
    /\ poolResult = [t \in Tasks |-> "none"]
    /\ poolCallsLeft = MaxPoolCalls

InitPrims ==
    primLast = [n |-> 0, op |-> "none", step |-> "none", fault |-> "none",
                commit |-> FALSE, message |-> None, lastrowid |-> None,
                kind |-> "none", text |-> None, id |-> None]

\* the module is imported: _container = None
InitBoot ==
    /\ container = 0
    /\ containerCount = 0
    /\ builds = 0
    /\ received = {}
    /\ bootPc = [t \in Tasks |-> "idle"]
    /\ bootCallsLeft = MaxBootCalls

\* a use case that has not been called, on an empty repository
InitSendCalls ==
    /\ sendPc = "idle"
    /\ user_input = ""
    /\ persisted = <<>>
    /\ persisted0 = 0
    /\ provider = "none"
    /\ response_chunks = <<>>
    /\ yielded = <<>>
    /\ sendResult = "none"
    /\ sendsLeft = MaxSends

InitSend == InitSendCalls /\ message_repository = "memory"

\* connection.py is imported: both globals are None, the lock is free
InitGlobal ==
    /\ GLOBAL_CONFIG = 0
    /\ GLOBAL_CONNECTION = 0
    /\ CONNECTION_LOCK = 0
    /\ globalCount = 0
    /\ globalOpen = {}
    /\ globalPc = [t \in Tasks |-> "idle"]
    /\ globalConfig = [t \in Tasks |-> 0]
    /\ globalResult = [t \in Tasks |-> "none"]
    /\ lastConnect = None
    /\ globalCallsLeft = MaxGlobalCalls

\* run_migrations has not been called
InitRun ==
    /\ runPc = [t \in Tasks |-> "idle"]
    /\ migrations_dir = [t \in Tasks |-> ""]
    /\ runConnection = [t \in Tasks |-> 0]
    /\ runCount = 0
    /\ runOpen = {}
    /\ runResult = [t \in Tasks |-> "none"]
    /\ runCallsLeft = MaxRunCalls

InitApp == InitBoot /\ InitSend /\ InitGlobal /\ InitRun

InitAux == InitPool /\ checkSameThread = TRUE /\ InitPrims /\ InitApp

\* no migrations directory, a database without schema_migrations
NoMigrator ==
    /\ dirExists = FALSE
    /\ listing = <<>>
    /\ failAt = [m \in FileIds |-> 0]
    /\ tableExists = FALSE
    /\ schema_migrations = {}
    /\ stmtsDone = [m \in FileIds |-> 0]
    /\ runsLeft = 0

\* ---- the migration engine, one call of migrate() at a time
MigInit ==
    InitTasks /\ InitMigrator /\ InitConn /\ InitUsers /\ InitMessages /\ InitAux

MigNext ==
    \/ \E t \in SeqTasks : SeqMigrateCall(t) /\ UNCHANGED repoVars
    \/ \E t \in Tasks : EnsureMigrationsTable(t) /\ UNCHANGED repoVars
    \/ \E t \in Tasks : ReadPending(t) /\ UNCHANGED repoVars
    \/ \E t \in Tasks : ExecuteScript(t) /\ UNCHANGED repoVars
    \/ \E t \in Tasks : InsertRow(t) /\ UNCHANGED repoVars
    \/ \E t \in Tasks : CommitRow(t) /\ UNCHANGED repoVars
    \/ \E m \in FileIds : AddFile(m) /\ UNCHANGED repoVars
    \/ \E m \in FileIds : FixFile(m) /\ UNCHANGED repoVars

SpecMig == MigInit /\ [][MigNext]_vars

\* ---- the migration engine, calls of migrate() by several tasks interleaved
\* at their await points against one database and one directory
MigConcNext ==
    \/ \E t \in Tasks : MigrateCall(t) /\ UNCHANGED repoVars
    \/ \E t \in Tasks : EnsureMigrationsTable(t) /\ UNCHANGED repoVars
    \/ \E t \in Tasks : ReadPending(t) /\ UNCHANGED repoVars
    \/ \E t \in Tasks : ExecuteScript(t) /\ UNCHANGED repoVars
    \/ \E t \in Tasks : InsertRow(t) /\ UNCHANGED repoVars
    \/ \E t \in Tasks : CommitRow(t) /\ UNCHANGED repoVars

\* a fresh database and a directory of up to MaxConcFiles files
MigConcInit ==
    /\ InitTasks
    /\ InitConn
    /\ InitUsers
    /\ InitMessages
    /\ InitAux
    /\ dirExists = TRUE
    /\ listing \in UNION {Perms(S) : S \in SUBSET (1..MaxConcFiles)}
    /\ failAt \in [FileIds -> 0..NumStmts]
    /\ \A m \in FileIds : m \notin Range(listing) => failAt[m] = 0
    /\ tableExists = FALSE
    /\ schema_migrations = {}
    /\ stmtsDone = [m \in FileIds |-> 0]
    /\ runsLeft = MaxRuns

SpecMigConc == MigConcInit /\ [][MigConcNext]_vars

\* ------------------------------------------------ the connection manager
\* mutant: init() opens without looking at self._connection
AlwaysNeedsOpen == TRUE

\* init(), under the lock: if self._connection is None
NeedsOpen == connection = 0

\* a task starts the call `name` on the manager
StartCall(t, name) ==
    /\ pc[t] = "idle"
    /\ callsLeft > 0
    /\ callsLeft' = callsLeft - 1
    /\ op' = [op EXCEPT ![t] = name]
    /\ errId' = [errId EXCEPT ![t] = 0]

\* init(): the task asks for self._lock
InitCall(t) ==
    /\ StartCall(t, "init")
    /\ pc' = [pc EXCEPT ![t] = "init_lock"]
    /\ result' = [result EXCEPT ![t] = "none"]
    /\ UNCHANGED <<dbVars, localVars, histVars, lock, connection, connCount,
                   openConns, opens, initMigrations, held>>

\* init(): the lock is acquired; with a connection present init() returns
InitAcquire(t) ==
    /\ pc[t] = "init_lock"
    /\ lock = 0
    /\ IF NeedsOpen
       THEN /\ lock' = t
            /\ pc' = [pc EXCEPT ![t] = "connect"]
            /\ UNCHANGED <<result, held>>
       ELSE Return(t, "ok")
    /\ UNCHANGED <<dbVars, localVars, histVars, errId, connection, connCount,
                   openConns, opens, initMigrations, op, callsLeft>>

\* init(): aiosqlite.connect() returns; the reference is set, migrate() starts
ConnectOk(t) ==
    /\ pc[t] = "connect"
    /\ connCount' = connCount + 1
    /\ connection' = connCount + 1
    /\ openConns' = openConns \cup {connCount + 1}
    /\ opens' = opens + 1
    /\ initMigrations' = initMigrations + 1
    /\ pc' = [pc EXCEPT ![t] = "ensure"]
    /\ applied_migrations' = [applied_migrations EXCEPT ![t] = {}]
    /\ pending_migrations' = [pending_migrations EXCEPT ![t] = <<>>]
    /\ runLog' = [runLog EXCEPT ![t] = <<>>]
    /\ insLog' = [insLog EXCEPT ![t] = <<>>]
    /\ afterOk' = [afterOk EXCEPT ![t] = okSince]
    /\ rows0' = [rows0 EXCEPT ![t] = schema_migrations]
    /\ afterFail' = [afterFail EXCEPT ![t] = lastFail]
    /\ UNCHANGED <<dbVars, histVars, result, errId, lock, op, held, callsLeft>>

\* init(): aiosqlite.connect() raises; init() raises StorageError
ConnectFail(t) ==
    /\ pc[t] = "connect"
    /\ Return(t, "StorageError")
    /\ UNCHANGED <<dbVars, localVars, histVars, errId, connection, connCount,
                   openConns, opens, initMigrations, op, callsLeft>>

\* get_connection(): yields the connection, after init() when there is none
GetConnectionCall(t) ==
    /\ StartCall(t, "get_connection")
    /\ result' = [result EXCEPT ![t] = "none"]
    /\ IF connection = 0
       THEN /\ pc' = [pc EXCEPT ![t] = "init_lock"]
            /\ UNCHANGED held
       ELSE /\ pc' = [pc EXCEPT ![t] = "in_block"]
            /\ held' = [held EXCEPT ![t] = connection]
    /\ UNCHANGED <<dbVars, localVars, histVars, lock, connection, connCount,
                   openConns, opens, initMigrations>>

\* aiosqlite.Error and its subclasses
IsDriverError(f) == f \in {"IntegrityError", "OperationalError"}

\* what may be raised inside the block of get_connection(): nothing, a driver
\* fault, or another exception of the code in the block
BlockFaults == {"none", "OperationalError", "ValueError"}

\* get_connection(): try: yield ... except aiosqlite.Error -> StorageError
get_connection_exit(f) ==
    IF f = "none" THEN "ok"
    ELSE IF IsDriverError(f) THEN "StorageError"
    ELSE f

\* the block of get_connection() ends, or raises
ExitBlock(t) ==
    /\ pc[t] = "in_block"
    /\ pc' = [pc EXCEPT ![t] = "idle"]
    /\ held' = [held EXCEPT ![t] = 0]
    /\ \E f \in BlockFaults :
           result' = [result EXCEPT ![t] = get_connection_exit(f)]
    /\ UNCHANGED <<dbVars, localVars, histVars, errId, lock, connection, connCount,
                   openConns, opens, initMigrations, op, callsLeft>>

\* mutant: the connection property hands out whatever the reference holds
ConnectionNeverMissing == FALSE

\* the connection property: if self._connection is None: raise StorageError
ConnectionMissing == connection = 0

\* execute() / fetch_all() / fetch_one(): the connection property, then the
\* statement is awaited on the connection
ExecuteCall(t) ==
    /\ StartCall(t, "execute")
    /\ IF ConnectionMissing
       THEN /\ result' = [result EXCEPT ![t] = "StorageError"]
            /\ UNCHANGED <<pc, held>>
       ELSE /\ pc' = [pc EXCEPT ![t] = "executing"]
            /\ held' = [held EXCEPT ![t] = connection]
            /\ result' = [result EXCEPT ![t] = "none"]
    /\ UNCHANGED <<dbVars, localVars, histVars, lock, connection, connCount,
                   openConns, opens, initMigrations>>

\* the statement returns, or raises aiosqlite.Error
ExecuteReturn(t) ==
    /\ pc[t] = "executing"
    /\ pc' = [pc EXCEPT ![t] = "idle"]
    /\ held' = [held EXCEPT ![t] = 0]
    /\ \E r \in {"ok", "StorageError"} : result' = [result EXCEPT ![t] = r]
    /\ UNCHANGED <<dbVars, localVars, histVars, errId, lock, connection, connCount,
                   openConns, opens, initMigrations, op, callsLeft>>

\* close(): the task asks for self._lock
CloseCall(t) ==
    /\ StartCall(t, "close")
    /\ pc' = [pc EXCEPT ![t] = "close_lock"]
    /\ result' = [result EXCEPT ![t] = "none"]
    /\ UNCHANGED <<dbVars, localVars, histVars, lock, connection, connCount,
                   openConns, opens, initMigrations, held>>

\* close(): the lock is acquired; without a connection close() returns
CloseAcquire(t) ==
    /\ pc[t] = "close_lock"
    /\ lock = 0
    /\ IF connection # 0
       THEN /\ lock' = t
            /\ pc' = [pc EXCEPT ![t] = "closing"]
            /\ UNCHANGED result
       ELSE /\ pc' = [pc EXCEPT ![t] = "idle"]
            /\ result' = [result EXCEPT ![t] = "ok"]
            /\ UNCHANGED lock
    /\ UNCHANGED <<dbVars, localVars, histVars, errId, connection, connCount,
                   openConns, opens, initMigrations, op, held, callsLeft>>

\* mutant: close() leaves the reference as it is
StaleReference == connection

\* close(): self._connection = None
ClearedReference == 0

\* close(): the connection is closed and the reference cleared
CloseDone(t) ==
    /\ pc[t] = "closing"
    /\ openConns' = openConns \ {connection}
    /\ connection' = ClearedReference
    /\ opens' = 0
    /\ initMigrations' = 0
    /\ lock' = 0
    /\ pc' = [pc EXCEPT ![t] = "idle"]
    /\ result' = [result EXCEPT ![t] = "ok"]
    /\ UNCHANGED <<dbVars, localVars, histVars, errId, connCount, op, held,
                   callsLeft>>

\* the migrations directory the manager uses: up to MaxConnFiles files
ConnListings == UNION {Perms(S) : S \in SUBSET (1..MaxConnFiles)}

ConnInit ==
    /\ InitTasks
    /\ InitConn
    /\ InitUsers
    /\ InitMessages
    /\ InitAux
    /\ dirExists = TRUE
    /\ listing \in ConnListings
    /\ failAt \in [FileIds -> 0..NumStmts]
    /\ \A m \in FileIds : m \notin Range(listing) => failAt[m] = 0
    /\ tableExists = FALSE
    /\ schema_migrations = {}
    /\ stmtsDone = [m \in FileIds |-> 0]
    /\ runsLeft = 0

ConnNext ==
    \/ \E t \in Tasks : InitCall(t) /\ UNCHANGED repoVars
    \/ \E t \in Tasks : InitAcquire(t) /\ UNCHANGED repoVars
    \/ \E t \in Tasks : ConnectOk(t) /\ UNCHANGED repoVars
    \/ \E t \in Tasks : ConnectFail(t) /\ UNCHANGED repoVars
    \/ \E t \in Tasks : EnsureMigrationsTable(t) /\ UNCHANGED repoVars
    \/ \E t \in Tasks : ReadPending(t) /\ UNCHANGED repoVars
    \/ \E t \in Tasks : ExecuteScript(t) /\ UNCHANGED repoVars
    \/ \E t \in Tasks : InsertRow(t) /\ UNCHANGED repoVars
    \/ \E t \in Tasks : CommitRow(t) /\ UNCHANGED repoVars
    \/ \E t \in Tasks : GetConnectionCall(t) /\ UNCHANGED repoVars
    \/ \E t \in Tasks : ExitBlock(t) /\ UNCHANGED repoVars
    \/ \E t \in Tasks : ExecuteCall(t) /\ UNCHANGED repoVars
    \/ \E t \in Tasks : ExecuteReturn(t) /\ UNCHANGED repoVars
    \/ \E t \in Tasks : CloseCall(t) /\ UNCHANGED repoVars
    \/ \E t \in Tasks : CloseAcquire(t) /\ UNCHANGED repoVars
    \/ \E t \in Tasks : CloseDone(t) /\ UNCHANGED repoVars

SpecConn == ConnInit /\ [][ConnNext]_vars


\* ------------------------------------------------- the user repositories
\* usernames callers pass, and str.lower() on them
Usernames == {"bob", "Bob", "BOB", "alice"}

Lower(name) ==
    CASE name = "bob" -> "bob"
      [] name = "Bob" -> "bob"
      [] name = "BOB" -> "bob"
      [] name = "alice" -> "alice"

\* ids a caller may preset on a User; 0 is "not yet persisted"
UserIds == 0..MaxUserId

\* dict: d[key] = value keeps the place of a present key, else appends
DictSet(d, u) ==
    IF \E i \in 1..Len(d) : d[i].id = u.id
    THEN [i \in 1..Len(d) |-> IF d[i].id = u.id THEN u ELSE d[i]]
    ELSE Append(d, u)

\* dict: del d[key]
RECURSIVE DictDel(_, _)
DictDel(d, id) ==
    IF d = <<>> THEN <<>>
    ELSE IF Head(d).id = id THEN DictDel(Tail(d), id)
    ELSE <<Head(d)>> \o DictDel(Tail(d), id)

\* mutant: the uniqueness check compares the usernames as given
UsernameTakenExact(name) ==
    \E i \in 1..Len(mem_users) : mem_users[i].username = name

\* InMemoryUserRepository.save: the loop over existing users
UsernameTaken(name) ==
    \E i \in 1..Len(mem_users) : Lower(mem_users[i].username) = Lower(name)

\* InMemoryUserRepository.find_by_username: <<>> for None, else <<user>>
MemFindByUsername(name) ==
    IF \E i \in 1..Len(mem_users) : Lower(mem_users[i].username) = Lower(name)
    THEN LET i == Min({k \in 1..Len(mem_users) :
                         Lower(mem_users[k].username) = Lower(name)})
         IN  <<mem_users[i]>>
    ELSE <<>>

\* the repository call `name` ends: memLast records it
MemRecord(o, name, kind, id) ==
    /\ repoCallsLeft > 0
    /\ repoCallsLeft' = repoCallsLeft - 1
    /\ memLast' = [n |-> memLast.n + 1, op |-> o, name |-> name, kind |-> kind,
                   id |-> id]

\* InMemoryUserRepository.save(user): the store after it, or RepositoryError
MemSaveUser(o, user) ==
    IF UsernameTaken(user.username)
    THEN /\ MemRecord(o, user.username, "RepositoryError", 0)
         /\ UNCHANGED <<mem_users, user_next_id>>
    ELSE LET user_with_id ==
                 IF user.id = 0
                 THEN [id |-> user_next_id, username |-> user.username]
                 ELSE user
         IN  /\ user_next_id' = IF user.id = 0 THEN user_next_id + 1
                                ELSE user_next_id
             /\ mem_users' = DictSet(mem_users, user_with_id)
             /\ MemRecord(o, user.username, "user", user_with_id.id)

\* InMemoryUserRepository.save
MemSave(id, name) ==
    /\ MemSaveUser("save", [id |-> id, username |-> name])
    /\ UNCHANGED <<users_table, statements, sqlLast>>

\* InMemoryUserRepository.get_or_create
MemGetOrCreate(name) ==
    /\ LET existing == MemFindByUsername(name)
       IN  IF existing # <<>>
           THEN /\ MemRecord("get_or_create", name, "user", existing[1].id)
                /\ UNCHANGED <<mem_users, user_next_id>>
           ELSE MemSaveUser("get_or_create", [id |-> 0, username |-> name])
    /\ UNCHANGED <<users_table, statements, sqlLast>>

\* InMemoryUserRepository.delete
MemDelete(id) ==
    /\ MemRecord("delete", "", "bool", id)
    /\ mem_users' = DictDel(mem_users, id)
    /\ UNCHANGED <<user_next_id, users_table, statements, sqlLast>>

\* The methods of SQLiteRepositoryBase are coroutine functions ("async def").
\* SQLiteUserRepository calls them without await: the call makes a coroutine
\* object and runs none of the method's body, so no statement is executed.
UnawaitedCall(method) == [kind |-> "coroutine", of |-> method]

\* SQLiteUserRepository._row_to_user(row): row[0] on a coroutine object raises
\* TypeError ('coroutine' object is not subscriptable)
row_to_user(row) ==
    IF row.kind = "coroutine"
    THEN [kind |-> "TypeError"]
    ELSE [kind |-> "user", id |-> [kind |-> "int", value |-> row.id],
          username |-> row.username]

\* SQLiteUserRepository.find_by_username
SqlFindByUsername(name) ==
    LET row == UnawaitedCall("_fetchone")
    IN  IF row.kind = "None" THEN [kind |-> "None"] ELSE row_to_user(row)

\* SQLiteUserRepository.save: the returned User carries the coroutine as id
SqlSave(name) ==
    LET user_id == UnawaitedCall("_insert_returning_id")
    IN  [kind |-> "user", id |-> user_id, username |-> name]

\* SQLiteUserRepository.get_or_create
SqlGetOrCreate(name) ==
    LET existing == SqlFindByUsername(name)
    IN  IF existing.kind = "TypeError" THEN existing
        ELSE IF existing.kind # "None" THEN existing
        ELSE SqlSave(name)

\* SQLiteUserRepository.find_by_id
SqlFindById(user_id) ==
    LET row == UnawaitedCall("_fetchone")
    IN  IF row.kind = "None" THEN [kind |-> "None"] ELSE row_to_user(row)

\* statements a call of a primitive executes: the body of a coroutine that
\* is never awaited does not run
Executed(call) == IF call.kind = "coroutine" THEN 0 ELSE 1

\* statements get_or_create executes: the SELECT, and the INSERT of save()
\* when find_by_username returned None
SqlGetOrCreateStatements(name) ==
    Executed(UnawaitedCall("_fetchone"))
        + (IF SqlFindByUsername(name).kind = "None"
           THEN Executed(UnawaitedCall("_insert_returning_id"))
           ELSE 0)

\* the kind of value the returned entity carries as id
IdKind(res) == IF res.kind \in {"user", "message"} THEN res.id.kind ELSE "none"

\* task t calls a method of SQLiteUserRepository, which executes n statements;
\* the call has no point where it is suspended, it returns or raises at once
SqlCall(t, o, name, res, n) ==
    /\ repoCallsLeft > 0
    /\ repoCallsLeft' = repoCallsLeft - 1
    /\ statements' = statements + n
    /\ sqlLast' = [sqlLast EXCEPT ![t] = [op |-> o, name |-> name,
                                         kind |-> res.kind, stmts |-> n,
                                         idKind |-> IdKind(res)]]
    /\ UNCHANGED <<mem_users, user_next_id, memLast, users_table>>

SqlGetOrCreateCall(t, name) ==
    SqlCall(t, "get_or_create", name, SqlGetOrCreate(name),
            SqlGetOrCreateStatements(name))

SqlSaveCall(t, name) ==
    SqlCall(t, "save", name, SqlSave(name),
            Executed(UnawaitedCall("_insert_returning_id")))

SqlFindByIdCall(t, user_id) ==
    SqlCall(t, "find_by_id", "", SqlFindById(user_id),
            Executed(UnawaitedCall("_fetchone")))

SqlFindByUsernameCall(t, name) ==
    SqlCall(t, "find_by_username", name, SqlFindByUsername(name),
            Executed(UnawaitedCall("_fetchone")))

\* ---- the user repositories
UsersInit ==
    /\ InitTasks
    /\ InitConn
    /\ InitUsers
    /\ InitMessages
    /\ InitAux
    /\ dirExists = FALSE
    /\ listing = <<>>
    /\ failAt = [m \in FileIds |-> 0]
    /\ tableExists = FALSE
    /\ schema_migrations = {}
    /\ stmtsDone = [m \in FileIds |-> 0]
    /\ runsLeft = 0

UsersNext ==
    \/ \E id \in UserIds : \E name \in Usernames :
           MemSave(id, name) /\ UNCHANGED <<migVars, connVars, msgVars, auxVars>>
    \/ \E name \in Usernames :
           MemGetOrCreate(name) /\ UNCHANGED <<migVars, connVars, msgVars, auxVars>>
    \/ \E id \in 1..(MaxUserId + 1) :
           MemDelete(id) /\ UNCHANGED <<migVars, connVars, msgVars, auxVars>>
    \/ \E t \in Tasks : \E name \in Usernames :
           SqlGetOrCreateCall(t, name) /\ UNCHANGED <<migVars, connVars, msgVars, auxVars>>

SpecUsers == UsersInit /\ [][UsersNext]_vars


\* ---------------------------------------------- the message repositories
MsgUsers == {1, 2}

\* ids a caller may preset on a ChatMessage; 0 is "not yet persisted"
MsgIds == 0..MaxMsgId

Timestamps == 1..MaxTime

\* s without its i-th element
RemoveAt(s, i) == SubSeq(s, 1, i - 1) \o SubSeq(s, i + 1, Len(s))

\* sorted(user_messages, key=lambda m: m.timestamp, reverse=True): stable,
\* messages of equal timestamp keep their order
RECURSIVE SortedByTimestampDesc(_)
SortedByTimestampDesc(s) ==
    IF s = <<>> THEN <<>>
    ELSE LET top == Max({s[k].timestamp : k \in 1..Len(s)})
             i == Min({k \in 1..Len(s) : s[k].timestamp = top})
         IN  <<s[i]>> \o SortedByTimestampDesc(RemoveAt(s, i))

\* [msg for msg in self._messages.values() if msg.user_id == user_id]
RECURSIVE MessagesOfUser(_, _)
MessagesOfUser(s, user_id) ==
    IF s = <<>> THEN <<>>
    ELSE IF Head(s).user_id = user_id
         THEN <<Head(s)>> \o MessagesOfUser(Tail(s), user_id)
         ELSE MessagesOfUser(Tail(s), user_id)

\* s[offset : offset + limit]
Slice(s, offset, limit) ==
    SubSeq(s, offset + 1, IF offset + limit < Len(s) THEN offset + limit ELSE Len(s))

\* InMemoryMessageRepository.find_by_user_id
mem_find_by_user_id(user_id, limit, offset) ==
    Slice(SortedByTimestampDesc(MessagesOfUser(mem_messages, user_id)), offset, limit)

\* InMemoryMessageRepository.save
MemSaveMessage(id, user_id, ts) ==
    /\ repoCallsLeft > 0
    /\ repoCallsLeft' = repoCallsLeft - 1
    /\ LET message_with_id ==
               [id |-> IF id = 0 THEN message_next_id ELSE id,
                user_id |-> user_id, timestamp |-> ts]
       IN  mem_messages' = DictSet(mem_messages, message_with_id)
    /\ message_next_id' = IF id = 0 THEN message_next_id + 1 ELSE message_next_id
    /\ UNCHANGED <<msgLast, sqlMsgLast>>

\* InMemoryMessageRepository.delete_by_id
MemDeleteMessage(id) ==
    /\ repoCallsLeft > 0
    /\ repoCallsLeft' = repoCallsLeft - 1
    /\ mem_messages' = DictDel(mem_messages, id)
    /\ UNCHANGED <<message_next_id, msgLast, sqlMsgLast>>

\* InMemoryMessageRepository.find_by_user_id is called
MemFindByUserId(user_id, limit, offset) ==
    /\ repoCallsLeft > 0
    /\ repoCallsLeft' = repoCallsLeft - 1
    /\ msgLast' = [n |-> msgLast.n + 1, user_id |-> user_id, limit |-> limit,
                   offset |-> offset,
                   result |-> mem_find_by_user_id(user_id, limit, offset)]
    /\ UNCHANGED <<mem_messages, message_next_id, sqlMsgLast>>

\* SQLiteMessageRepository.find_by_user_id: self._fetchall(...) is not awaited,
\* and the loop over the coroutine object raises TypeError ('coroutine' object
\* is not iterable)
sql_find_by_user_id(user_id, limit, offset) ==
    LET rows == UnawaitedCall("_fetchall")
    IN  IF rows.kind = "coroutine"
        THEN [kind |-> "TypeError"]
        ELSE [kind |-> "messages"]

\* SQLiteMessageRepository.find_by_user_id is called
SqlFindByUserId(user_id, limit, offset) ==
    /\ repoCallsLeft > 0
    /\ repoCallsLeft' = repoCallsLeft - 1
    /\ sqlMsgLast' = [op |-> "find_by_user_id",
                      kind |-> sql_find_by_user_id(user_id, limit, offset).kind,
                      stmts |-> Executed(UnawaitedCall("_fetchall")),
                      idKind |-> "none", sent |-> None, got |-> None]
    /\ UNCHANGED <<mem_messages, message_next_id, msgLast>>

\* ---- the message repositories
MessagesInit == UsersInit

MessagesNext ==
    \/ \E id \in MsgIds : \E u \in MsgUsers : \E ts \in Timestamps :
           /\ MemSaveMessage(id, u, ts)
           /\ UNCHANGED <<migVars, connVars, auxVars, mem_users, user_next_id, memLast,
                          users_table, statements, sqlLast>>
    \/ \E id \in 1..(MaxMsgId + 1) :
           /\ MemDeleteMessage(id)
           /\ UNCHANGED <<migVars, connVars, auxVars, mem_users, user_next_id, memLast,
                          users_table, statements, sqlLast>>
    \/ \E u \in MsgUsers : \E limit \in 0..MaxPage : \E offset \in 0..MaxPage :
           /\ MemFindByUserId(u, limit, offset)
           /\ UNCHANGED <<migVars, connVars, auxVars, mem_users, user_next_id, memLast,
                          users_table, statements, sqlLast>>
    \/ \E u \in MsgUsers : \E limit \in 0..MaxPage : \E offset \in 0..MaxPage :
           /\ SqlFindByUserId(u, limit, offset)
           /\ UNCHANGED <<migVars, connVars, auxVars, mem_users, user_next_id, memLast,
                          users_table, statements, sqlLast>>

SpecMessages == MessagesInit /\ [][MessagesNext]_vars



\* ------------------------------------------- the SQLite repositories
\* MessageRole: the members and their values
Roles == {"USER", "ASSISTANT", "SYSTEM"}

\* message.role.value
RoleValue(role) ==
    CASE role = "USER" -> "user"
      [] role = "ASSISTANT" -> "assistant"
      [] role = "SYSTEM" -> "system"

\* MessageRole(row[3]): the member with that value, else ValueError
MessageRole(value) ==
    CASE value = "user" -> "USER"
      [] value = "assistant" -> "ASSISTANT"
      [] value = "system" -> "SYSTEM"
      [] OTHER -> "ValueError"

\* datetimes: a second and its microseconds
Datetimes == [second : Timestamps, microsecond : {0, 5}]

\* str(message.timestamp): the fraction is written only when it is not zero
StrOfDatetime(d) ==
    [second |-> d.second,
     fraction |-> IF d.microsecond = 0 THEN None ELSE Some(d.microsecond)]

\* datetime.fromisoformat(row[5])
FromIsoFormat(text) ==
    [second |-> text.second,
     microsecond |-> IF text.fraction = None THEN 0 ELSE text.fraction[1]]

\* the messages callers save
NewMessages ==
    [user_id : MsgUsers, provider : {"openai"}, role : Roles,
     content : {"", "hi"}, timestamp : Datetimes]

\* SQLiteMessageRepository.save: the parameters of the INSERT
InsertParams(m) ==
    [user_id |-> m.user_id, provider |-> m.provider, role |-> RoleValue(m.role),
     content |-> m.content, timestamp |-> StrOfDatetime(m.timestamp)]

\* SQLiteMessageRepository.save: self._insert_returning_id(...) is not
\* awaited; the returned ChatMessage carries the coroutine as id
sql_message_save(m) ==
    LET message_id == UnawaitedCall("_insert_returning_id")
    IN  [kind |-> "message", id |-> message_id, user_id |-> m.user_id,
         provider |-> m.provider, role |-> m.role, content |-> m.content,
         timestamp |-> m.timestamp]

\* SQLiteMessageRepository._row_to_message(row): row[0] on a coroutine object
\* raises TypeError
row_to_message(row) ==
    IF row.kind = "coroutine"
    THEN [kind |-> "TypeError"]
    ELSE [kind |-> "message", id |-> [kind |-> "int", value |-> row.id],
          user_id |-> row.user_id, provider |-> row.provider,
          role |-> MessageRole(row.role), content |-> row.content,
          timestamp |-> FromIsoFormat(row.timestamp)]

\* SQLiteMessageRepository.find_by_id
sql_message_find_by_id(message_id) ==
    LET row == UnawaitedCall("_fetchone")
    IN  IF row.kind = "None" THEN [kind |-> "None"] ELSE row_to_message(row)

\* a call on SQLiteMessageRepository with input `sent` executes n statements
\* and ends with res
SqlMessageCall(o, sent, res, n) ==
    /\ repoCallsLeft > 0
    /\ repoCallsLeft' = repoCallsLeft - 1
    /\ statements' = statements + n
    /\ sqlMsgLast' = [op |-> o, kind |-> res.kind, stmts |-> n,
                      idKind |-> IdKind(res), sent |-> Some(sent),
                      got |-> IF res.kind = "message"
                              THEN Some([user_id |-> res.user_id,
                                         provider |-> res.provider,
                                         role |-> res.role,
                                         content |-> res.content,
                                         timestamp |-> res.timestamp])
                              ELSE None]
    /\ UNCHANGED <<migVars, connVars, auxVars, mem_users, user_next_id, memLast,
                   users_table, sqlLast, mem_messages, message_next_id, msgLast>>

SqlMessageSaveCall(m) ==
    SqlMessageCall("save", m, sql_message_save(m),
                   Executed(UnawaitedCall("_insert_returning_id")))

SqlMessageFindByIdCall(message_id) ==
    SqlMessageCall("find_by_id", message_id, sql_message_find_by_id(message_id),
                   Executed(UnawaitedCall("_fetchone")))

\* save(message), then find_by_id of the id of the message save returned
SqlMessageSaveThenFindCall(m) ==
    SqlMessageCall("save, find_by_id", m,
                   sql_message_find_by_id(sql_message_save(m).id),
                   Executed(UnawaitedCall("_insert_returning_id"))
                       + Executed(UnawaitedCall("_fetchone")))

\* ---- the SQLite repositories, called by one task on empty tables
SqlNext ==
    \/ \E t \in SeqTasks : \E name \in Usernames :
           SqlSaveCall(t, name) /\ UNCHANGED <<migVars, connVars, msgVars, auxVars>>
    \/ \E t \in SeqTasks : \E id \in 1..MaxUserId :
           SqlFindByIdCall(t, id) /\ UNCHANGED <<migVars, connVars, msgVars, auxVars>>
    \/ \E t \in SeqTasks : \E name \in Usernames :
           SqlFindByUsernameCall(t, name)
           /\ UNCHANGED <<migVars, connVars, msgVars, auxVars>>
    \/ \E m \in NewMessages : SqlMessageSaveCall(m)
    \/ \E id \in 1..MaxMsgId : SqlMessageFindByIdCall(id)
    \/ \E m \in NewMessages : SqlMessageSaveThenFindCall(m)

SpecSql == UsersInit /\ [][SqlNext]_vars

\* ------------------------- repositories on AsyncSQLiteRepositoryBase
\* _execute_sync: loop.run_in_executor(self._executor, ...); the operation of
\* task t is queued on the executor of repository i, the task awaits it
PoolSubmit(t, i) ==
    /\ poolPc[t] = "idle"
    /\ poolCallsLeft > 0
    /\ poolCallsLeft' = poolCallsLeft - 1
    /\ poolQueue' = [poolQueue EXCEPT ![i] = Append(@, t)]
    /\ poolPc' = [poolPc EXCEPT ![t] = "waiting"]
    /\ poolResult' = [poolResult EXCEPT ![t] = "none"]
    /\ UNCHANGED <<checkSameThread, poolRunning>>

\* ThreadPoolExecutor(max_workers=1): the one worker thread of repository i
\* takes the next operation and calls self._connection.execute(...). On a
\* connection made with check_same_thread=True the call raises
\* sqlite3.ProgrammingError in the worker thread: StorageError.
PoolWorkerStart(i) ==
    /\ poolRunning[i] = 0
    /\ poolQueue[i] # <<>>
    /\ poolQueue' = [poolQueue EXCEPT ![i] = Tail(@)]
    /\ LET t == Head(poolQueue[i])
       IN  IF checkSameThread
           THEN /\ poolPc' = [poolPc EXCEPT ![t] = "idle"]
                /\ poolResult' = [poolResult EXCEPT ![t] = "StorageError"]
                /\ UNCHANGED poolRunning
           ELSE /\ poolRunning' = [poolRunning EXCEPT ![i] = t]
                /\ UNCHANGED <<poolPc, poolResult>>
    /\ UNCHANGED <<checkSameThread, poolCallsLeft>>

\* the statement of the operation the worker of repository i runs ends
PoolWorkerDone(i) ==
    /\ poolRunning[i] # 0
    /\ poolRunning' = [poolRunning EXCEPT ![i] = 0]
    /\ poolPc' = [poolPc EXCEPT ![poolRunning[i]] = "idle"]
    /\ \E r \in {"ok", "StorageError"} :
           poolResult' = [poolResult EXCEPT ![poolRunning[i]] = r]
    /\ UNCHANGED <<checkSameThread, poolQueue, poolCallsLeft>>

PoolInit ==
    /\ InitTasks
    /\ InitConn
    /\ InitUsers
    /\ InitMessages
    /\ InitPool
    /\ InitPrims
    /\ InitApp
    /\ NoMigrator
    /\ checkSameThread \in BOOLEAN

PoolNext ==
    \/ \E t \in Tasks : \E i \in Repos :
           PoolSubmit(t, i)
           /\ UNCHANGED <<migVars, connVars, userVars, msgVars, primLast, appVars>>
    \/ \E i \in Repos :
           PoolWorkerStart(i)
           /\ UNCHANGED <<migVars, connVars, userVars, msgVars, primLast, appVars>>
    \/ \E i \in Repos :
           PoolWorkerDone(i)
           /\ UNCHANGED <<migVars, connVars, userVars, msgVars, primLast, appVars>>

SpecPool == PoolInit /\ [][PoolNext]_vars


\* --------------------------------------------- the repository primitives
\* the driver calls of an operation; a call raises at most at one of them
Steps == {"execute", "commit", "fetch"}

\* what the driver raises at that step: nothing or an aiosqlite.Error
DriverFaults == {"none", "IntegrityError", "OperationalError"}

\* integrity_error_message: None, an empty or a non-empty str
Messages == {None, Some(""), Some("username taken")}

\* cursor.lastrowid: None or the id of the inserted row
LastRowIds == {None, Some(7)}

Outcome(kind, text, id) == [kind |-> kind, text |-> text, id |-> id]

Returns(id) == Outcome("ok", None, id)

Raises(kind, text) == Outcome(kind, text, None)

\* except aiosqlite.Error / sqlite3.Error as e: raise StorageError(...) from e
AsStorageError(f) == IF IsDriverError(f) THEN Raises("StorageError", None)
                     ELSE Raises(f, None)

\* SQLiteRepositoryBase._execute and DatabaseConnection.execute: execute and,
\* with commit=True, commit inside the try
execute_op(step, fault, commit) ==
    IF fault # "none" /\ (step = "execute" \/ (step = "commit" /\ commit))
    THEN AsStorageError(fault)
    ELSE Returns(None)

\* SQLiteRepositoryBase._fetchone / _fetchall and DatabaseConnection.fetch_all
\* / fetch_one: the execute primitive, then cursor.fetchone() / fetchall()
\* awaited outside any try
fetch_op(step, fault) ==
    LET cursor == execute_op(step, fault, FALSE)
    IN  IF cursor.kind # "ok" THEN cursor
        ELSE IF fault # "none" /\ step = "fetch" THEN Raises(fault, None)
        ELSE Returns(None)

\* mutant: the message is used whether or not one was passed
AlwaysTruthy(message) == TRUE

\* if integrity_error_message: neither None nor the empty str
Truthy(message) == message # None /\ message # Some("")

\* _insert_returning_id: execute, commit, lastrowid inside the try; except
\* IntegrityError before except Error
insert_returning_id(step, fault, message, lastrowid) ==
    IF fault # "none" /\ step \in {"execute", "commit"}
    THEN IF fault = "IntegrityError"
         THEN IF Truthy(message)
              THEN Raises("RepositoryError", message)
              ELSE Raises("StorageError", None)
         ELSE AsStorageError(fault)
    ELSE IF lastrowid = None
         THEN Raises("StorageError", None)
         ELSE Returns(lastrowid)

\* AsyncSQLiteRepositoryBase._execute_sync: the operation runs in the
\* executor; what it raises passes except sqlite3.Error -> StorageError
execute_sync(outcome) ==
    IF outcome.kind = "ok" THEN outcome
    ELSE IF IsDriverError(outcome.kind) THEN Raises("StorageError", None)
    ELSE outcome

\* AsyncSQLiteRepositoryBase._fetchone / _fetchall: execute and fetch both
\* inside the operation handed to _execute_sync
async_fetch_op(step, fault) ==
    execute_sync(IF fault # "none" /\ step \in {"execute", "fetch"}
                 THEN Raises(fault, None)
                 ELSE Returns(None))

\* AsyncSQLiteRepositoryBase._insert_returning_id
async_insert_returning_id(step, fault, message, lastrowid) ==
    execute_sync(insert_returning_id(step, fault, message, lastrowid))

\* a call of primitive o with these inputs ends with outcome out
PrimCall(o, step, fault, commit, message, lastrowid, out) ==
    /\ primLast.n < MaxPrimCalls
    /\ primLast' = [n |-> primLast.n + 1, op |-> o, step |-> step,
                    fault |-> fault, commit |-> commit, message |-> message,
                    lastrowid |-> lastrowid, kind |-> out.kind,
                    text |-> out.text, id |-> out.id]
    /\ UNCHANGED <<migVars, connVars, userVars, msgVars, poolVars, appVars>>

BaseExecuteCall(step, fault, commit) ==
    PrimCall("SQLiteRepositoryBase._execute", step, fault, commit, None, None,
             execute_op(step, fault, commit))

BaseFetchCall(o, step, fault) ==
    PrimCall(o, step, fault, FALSE, None, None, fetch_op(step, fault))

BaseInsertCall(step, fault, message, lastrowid) ==
    PrimCall("SQLiteRepositoryBase._insert_returning_id", step, fault, TRUE,
             message, lastrowid,
             insert_returning_id(step, fault, message, lastrowid))

AsyncFetchCall(o, step, fault) ==
    PrimCall(o, step, fault, FALSE, None, None, async_fetch_op(step, fault))

AsyncInsertCall(step, fault, message, lastrowid) ==
    PrimCall("AsyncSQLiteRepositoryBase._insert_returning_id", step, fault,
             TRUE, message, lastrowid,
             async_insert_returning_id(step, fault, message, lastrowid))

ConnExecuteCall(step, fault, commit) ==
    PrimCall("DatabaseConnection.execute", step, fault, commit, None, None,
             execute_op(step, fault, commit))

ConnFetchCall(o, step, fault) ==
    PrimCall(o, step, fault, FALSE, None, None, fetch_op(step, fault))

PrimsInit ==
    /\ InitTasks
    /\ InitConn
    /\ InitUsers
    /\ InitMessages
    /\ InitAux
    /\ NoMigrator

PrimsNext ==
    \/ \E step \in Steps : \E fault \in DriverFaults : \E commit \in BOOLEAN :
           BaseExecuteCall(step, fault, commit)
    \/ \E o \in {"SQLiteRepositoryBase._fetchone", "SQLiteRepositoryBase._fetchall"} :
       \E step \in Steps : \E fault \in DriverFaults :
           BaseFetchCall(o, step, fault)
    \/ \E step \in Steps : \E fault \in DriverFaults :
       \E message \in Messages : \E lastrowid \in LastRowIds :
           BaseInsertCall(step, fault, message, lastrowid)
    \/ \E o \in {"AsyncSQLiteRepositoryBase._fetchone",
                 "AsyncSQLiteRepositoryBase._fetchall"} :
       \E step \in Steps : \E fault \in DriverFaults :
           AsyncFetchCall(o, step, fault)
    \/ \E step \in Steps : \E fault \in DriverFaults :
       \E message \in Messages : \E lastrowid \in LastRowIds :
           AsyncInsertCall(step, fault, message, lastrowid)
    \/ \E step \in Steps : \E fault \in DriverFaults : \E commit \in BOOLEAN :
           ConnExecuteCall(step, fault, commit)
    \/ \E o \in {"DatabaseConnection.fetch_all", "DatabaseConnection.fetch_one"} :
       \E step \in Steps : \E fault \in DriverFaults :
           ConnFetchCall(o, step, fault)

SpecPrims == PrimsInit /\ [][PrimsNext]_vars

\* ------------------------------------------------- the shared container
\* what the functions leave alone outside bootstrap.py
NotBoot == <<migVars, connVars, userVars, msgVars, poolVars, primLast, sendVars,
             globalVars, runVars>>

\* a call on bootstrap.py is made
BootCall ==
    /\ bootCallsLeft > 0
    /\ bootCallsLeft' = bootCallsLeft - 1

\* get_container_async(): with a container present it is returned; with
\* `_container is None` the task awaits build_container(). Nothing is recorded
\* between the test and the await, so a second task finds None as well.
GetContainerAsyncCall(t) ==
    /\ bootPc[t] = "idle"
    /\ BootCall
    /\ IF container = 0
       THEN /\ bootPc' = [bootPc EXCEPT ![t] = "building"]
            /\ builds' = builds + 1
            /\ UNCHANGED received
       ELSE /\ received' = received \cup {container}
            /\ UNCHANGED <<bootPc, builds>>
    /\ UNCHANGED <<container, containerCount>>

\* build_container() returns a new Container:
\* _container = await build_container(...); return _container
BuildDone(t) ==
    /\ bootPc[t] = "building"
    /\ containerCount' = containerCount + 1
    /\ container' = containerCount + 1
    /\ received' = received \cup {containerCount + 1}
    /\ bootPc' = [bootPc EXCEPT ![t] = "idle"]
    /\ UNCHANGED <<builds, bootCallsLeft>>

\* build_container() raises (the open or migrate() fails): nothing is assigned
BuildFail(t) ==
    /\ bootPc[t] = "building"
    /\ bootPc' = [bootPc EXCEPT ![t] = "idle"]
    /\ UNCHANGED <<container, containerCount, builds, received, bootCallsLeft>>

\* get_container(): asyncio.run(build_container(...)) runs the build to its end
\* inside the call. asyncio.run() cannot be called while the event loop of the
\* tasks is running, so no task is inside get_container_async.
GetContainer ==
    /\ \A t \in Tasks : bootPc[t] = "idle"
    /\ BootCall
    /\ IF container = 0
       THEN /\ builds' = builds + 1
            /\ \/ /\ containerCount' = containerCount + 1
                  /\ container' = containerCount + 1
                  /\ received' = received \cup {containerCount + 1}
               \/ UNCHANGED <<container, containerCount, received>>
       ELSE /\ received' = received \cup {container}
            /\ UNCHANGED <<container, containerCount, builds>>
    /\ UNCHANGED bootPc

\* reset_container(): _container = None
ResetContainer ==
    /\ BootCall
    /\ container' = 0
    /\ builds' = 0
    /\ received' = {}
    /\ UNCHANGED <<containerCount, bootPc>>

BootInit == PoolInit /\ checkSameThread = TRUE

BootNext ==
    \/ \E t \in Tasks : GetContainerAsyncCall(t) /\ UNCHANGED NotBoot
    \/ \E t \in Tasks : BuildDone(t) /\ UNCHANGED NotBoot
    \/ \E t \in Tasks : BuildFail(t) /\ UNCHANGED NotBoot
    \/ GetContainer /\ UNCHANGED NotBoot
    \/ ResetContainer /\ UNCHANGED NotBoot

SpecBoot == BootInit /\ [][BootNext]_vars

\* ---------------------------------------------------- SendMessageUseCase
\* what stream_response leaves alone
NotSend == <<migVars, connVars, userVars, msgVars, poolVars, primLast, bootVars,
             globalVars, runVars>>

\* user inputs, and the tokens a provider yields (strings as their characters)
UserInputs == {"hi", "bye"}
Tokens == {<<"a">>, <<"b", "c">>}

\* "".join(chunks)
RECURSIVE Join(_)
Join(chunks) == IF chunks = <<>> THEN <<>> ELSE Head(chunks) \o Join(Tail(chunks))

\* ProviderError and its subclasses
IsProviderError(e) == e \in {"ProviderError", "ProviderNotFoundError"}

\* what the provider's stream may raise
ProviderFaults == {"ProviderError", "ProviderNotFoundError", "RuntimeError"}

\* mutant: the exception of the provider reaches the caller as it is
RaisedAsIs(e) == e

\* except ProviderError: raise / except Exception as exc: raise ProviderError
stream_except(e) == IF IsProviderError(e) THEN e ELSE "ProviderError"

\* the generator ends: it returned (res = "ok"), raised, or was closed
SendEnd(res) ==
    /\ sendPc' = "idle"
    /\ sendResult' = res

\* stream_response(user_id=..., user_input=input) is called and iterated
StreamResponseCall(input) ==
    /\ sendPc = "idle"
    /\ sendsLeft > 0
    /\ sendsLeft' = sendsLeft - 1
    /\ sendPc' = "save_user"
    /\ user_input' = input
    /\ persisted0' = Len(persisted)
    /\ provider' = "none"
    /\ response_chunks' = <<>>
    /\ yielded' = <<>>
    /\ sendResult' = "none"
    /\ UNCHANGED <<message_repository, persisted>>

\* the implementations of IMessageRepository: InMemoryMessageRepository, and
\* SQLiteMessageRepository, which the Container passes to the use case
MessageRepositories == {"memory", "sqlite"}

\* save(message) of the repository: InMemoryMessageRepository stores the
\* message; SQLiteMessageRepository returns without executing the INSERT
\* (sql_message_save)
RepositorySave(message) ==
    IF message_repository = "memory" THEN Append(persisted, message) ELSE persisted

\* find_by_user_id of the repository: SQLiteMessageRepository raises TypeError
\* (sql_find_by_user_id)
RepositoryFindRaises == message_repository = "sqlite"

\* await self._message_repository.save(user_message)
SaveUserMessage ==
    /\ sendPc = "save_user"
    /\ persisted' = RepositorySave([role |-> "USER", content |-> user_input])
    /\ sendPc' = "history"
    /\ UNCHANGED <<message_repository, user_input, persisted0, provider, response_chunks,
                   yielded, sendResult, sendsLeft>>

\* await self._load_history_use_case.execute(...): the history, or the
\* exception of find_by_user_id, which stream_response does not catch
LoadHistory ==
    /\ sendPc = "history"
    /\ IF RepositoryFindRaises
       THEN SendEnd("TypeError")
       ELSE /\ sendPc' = "prompt"
            /\ UNCHANGED sendResult
    /\ UNCHANGED <<message_repository, user_input, persisted, persisted0, provider,
                   response_chunks, yielded, sendsLeft>>

\* the system prompt is resolved, the provider messages are built and
\* self._provider.stream_response(provider_messages) is called
InvokeProvider ==
    /\ sendPc = "prompt"
    /\ sendPc' = "stream"
    /\ provider' = "streaming"
    /\ UNCHANGED <<message_repository, user_input, persisted, persisted0, response_chunks,
                   yielded, sendResult, sendsLeft>>

\* the provider yields a token: response_chunks.append(token); yield token
ProviderToken(token) ==
    /\ sendPc = "stream"
    /\ Len(response_chunks) < MaxTokens
    /\ response_chunks' = Append(response_chunks, token)
    /\ yielded' = Append(yielded, token)
    /\ UNCHANGED <<message_repository, sendPc, user_input, persisted, persisted0, provider,
                   sendResult, sendsLeft>>

\* the provider's stream raises e
ProviderFails(e) ==
    /\ sendPc = "stream"
    /\ provider' = "failed"
    /\ SendEnd(stream_except(e))
    /\ UNCHANGED <<message_repository, user_input, persisted, persisted0, response_chunks,
                   yielded, sendsLeft>>

\* the caller stops iterating after a token: GeneratorExit is raised at the
\* yield; it is no Exception and passes both except clauses
CallerCloses ==
    /\ sendPc = "stream"
    /\ yielded # <<>>
    /\ SendEnd("closed")
    /\ UNCHANGED <<message_repository, user_input, persisted, persisted0, provider,
                   response_chunks, yielded, sendsLeft>>

\* the provider's stream ends
ProviderCompletes ==
    /\ sendPc = "stream"
    /\ provider' = "completed"
    /\ sendPc' = "save_assistant"
    /\ UNCHANGED <<message_repository, user_input, persisted, persisted0, response_chunks,
                   yielded, sendResult, sendsLeft>>

\* response_text = "".join(response_chunks)
response_text == Join(response_chunks)

\* await self._message_repository.save(assistant_message); the generator ends
SaveAssistantMessage ==
    /\ sendPc = "save_assistant"
    /\ persisted' = RepositorySave([role |-> "ASSISTANT", content |-> response_text])
    /\ SendEnd("ok")
    /\ UNCHANGED <<message_repository, user_input, persisted0, provider, response_chunks,
                   yielded, sendsLeft>>

\* a use case built on either repository
SendInit ==
    /\ InitTasks
    /\ InitConn
    /\ InitUsers
    /\ InitMessages
    /\ InitPool
    /\ InitPrims
    /\ InitBoot
    /\ InitSendCalls
    /\ InitGlobal
    /\ InitRun
    /\ NoMigrator
    /\ checkSameThread = TRUE
    /\ message_repository \in MessageRepositories

SendNext ==
    \/ \E input \in UserInputs : StreamResponseCall(input) /\ UNCHANGED NotSend
    \/ SaveUserMessage /\ UNCHANGED NotSend
    \/ LoadHistory /\ UNCHANGED NotSend
    \/ InvokeProvider /\ UNCHANGED NotSend
    \/ \E token \in Tokens : ProviderToken(token) /\ UNCHANGED NotSend
    \/ \E e \in ProviderFaults : ProviderFails(e) /\ UNCHANGED NotSend
    \/ CallerCloses /\ UNCHANGED NotSend
    \/ ProviderCompletes /\ UNCHANGED NotSend
    \/ SaveAssistantMessage /\ UNCHANGED NotSend

SpecSend == SendInit /\ [][SendNext]_vars

\* ------------------------------------------- the module-level connection
\* what init_database / get_connection / close_connection leave alone
NotGlobal == <<migVars, connVars, userVars, msgVars, poolVars, primLast, bootVars,
               sendVars, runVars>>

\* the configs callers pass, and the one get_config() makes from the environment
Configs == 1..NumConfigs
EnvConfig == NumConfigs + 1

\* the config argument: None or a config
ConfigArgs == {0} \cup Configs

\* config or get_config()
ConfigOrDefault(config) == IF config = 0 THEN EnvConfig ELSE config

\* config.database_path: every config names its own database
database_path(config) == <<"db", config>>

\* a task calls one of the functions
GlobalCall(t, config) ==
    /\ globalPc[t] = "idle"
    /\ globalCallsLeft > 0
    /\ globalCallsLeft' = globalCallsLeft - 1
    /\ globalConfig' = [globalConfig EXCEPT ![t] = config]
    /\ globalResult' = [globalResult EXCEPT ![t] = "none"]

\* the call of task t ends with res; the lock it holds is released
GlobalReturn(t, res) ==
    /\ globalPc' = [globalPc EXCEPT ![t] = "idle"]
    /\ globalResult' = [globalResult EXCEPT ![t] = res]
    /\ CONNECTION_LOCK' = IF CONNECTION_LOCK = t THEN 0 ELSE CONNECTION_LOCK

\* init_database(config): the task asks for _CONNECTION_LOCK
InitDatabaseCall(t, config) ==
    /\ GlobalCall(t, config)
    /\ globalPc' = [globalPc EXCEPT ![t] = "init_lock"]
    /\ UNCHANGED <<GLOBAL_CONFIG, GLOBAL_CONNECTION, CONNECTION_LOCK, globalCount,
                   globalOpen, lastConnect>>

\* if _GLOBAL_CONFIG is None: _GLOBAL_CONFIG = config or get_config()
ResolvedConfig(config) ==
    IF GLOBAL_CONFIG = 0 THEN ConfigOrDefault(config) ELSE GLOBAL_CONFIG

\* init_database: the lock is acquired; _GLOBAL_CONFIG is set when it is None;
\* with a connection present the function returns it
InitDatabaseAcquire(t) ==
    /\ globalPc[t] = "init_lock"
    /\ CONNECTION_LOCK = 0
    /\ GLOBAL_CONFIG' = ResolvedConfig(globalConfig[t])
    /\ IF GLOBAL_CONNECTION = 0
       THEN /\ CONNECTION_LOCK' = t
            /\ globalPc' = [globalPc EXCEPT ![t] = "connect"]
            /\ UNCHANGED globalResult
       ELSE GlobalReturn(t, "ok")
    /\ UNCHANGED <<GLOBAL_CONNECTION, globalCount, globalOpen, globalConfig, lastConnect,
                   globalCallsLeft>>

\* _GLOBAL_CONNECTION = await aiosqlite.connect(_GLOBAL_CONFIG.database_path)
InitDatabaseConnectOk(t) ==
    /\ globalPc[t] = "connect"
    /\ globalCount' = globalCount + 1
    /\ GLOBAL_CONNECTION' = globalCount + 1
    /\ globalOpen' = globalOpen \cup {[id |-> globalCount + 1,
                                        path |-> database_path(GLOBAL_CONFIG)]}
    /\ lastConnect' = Some([config |-> globalConfig[t],
                            path |-> database_path(GLOBAL_CONFIG)])
    /\ globalPc' = [globalPc EXCEPT ![t] = "migrate"]
    /\ UNCHANGED <<GLOBAL_CONFIG, CONNECTION_LOCK, globalConfig, globalResult,
                   globalCallsLeft>>

\* aiosqlite.connect raises: except aiosqlite.Error -> StorageError
InitDatabaseConnectFail(t) ==
    /\ globalPc[t] = "connect"
    /\ GlobalReturn(t, "StorageError")
    /\ UNCHANGED <<GLOBAL_CONFIG, GLOBAL_CONNECTION, globalCount, globalOpen, globalConfig,
                   lastConnect, globalCallsLeft>>

\* await migrator.migrate() returns, or raises StorageError; the function
\* returns _GLOBAL_CONNECTION or lets the StorageError pass
InitDatabaseMigrated(t) ==
    /\ globalPc[t] = "migrate"
    /\ \E res \in {"ok", "StorageError"} : GlobalReturn(t, res)
    /\ UNCHANGED <<GLOBAL_CONFIG, GLOBAL_CONNECTION, globalCount, globalOpen, globalConfig,
                   lastConnect, globalCallsLeft>>

\* get_connection(config): the connection, after init_database(config) when
\* there is none
GlobalGetConnectionCall(t, config) ==
    /\ GlobalCall(t, config)
    /\ IF GLOBAL_CONNECTION = 0
       THEN /\ globalPc' = [globalPc EXCEPT ![t] = "init_lock"]
            /\ UNCHANGED <<GLOBAL_CONFIG, GLOBAL_CONNECTION, CONNECTION_LOCK, globalCount,
                           globalOpen, lastConnect>>
       ELSE /\ globalResult' = [globalResult EXCEPT ![t] = "ok"]
            /\ UNCHANGED <<GLOBAL_CONFIG, GLOBAL_CONNECTION, CONNECTION_LOCK, globalCount,
                           globalOpen, globalPc, lastConnect>>

\* close_connection(): the task asks for _CONNECTION_LOCK
CloseConnectionCall(t) ==
    /\ GlobalCall(t, 0)
    /\ globalPc' = [globalPc EXCEPT ![t] = "close_lock"]
    /\ UNCHANGED <<GLOBAL_CONFIG, GLOBAL_CONNECTION, CONNECTION_LOCK, globalCount,
                   globalOpen, lastConnect>>

\* close_connection: under the lock the connection, when there is one, is
\* closed and _GLOBAL_CONNECTION = None; _GLOBAL_CONFIG is left as it is
CloseConnectionDone(t) ==
    /\ globalPc[t] = "close_lock"
    /\ CONNECTION_LOCK = 0
    /\ globalOpen' = {c \in globalOpen : c.id # GLOBAL_CONNECTION}
    /\ GLOBAL_CONNECTION' = 0
    /\ GlobalReturn(t, "ok")
    /\ UNCHANGED <<GLOBAL_CONFIG, globalCount, globalConfig, lastConnect, globalCallsLeft>>

GlobalInit == PoolInit /\ checkSameThread = TRUE

GlobalNext ==
    \/ \E t \in Tasks : \E config \in ConfigArgs :
           InitDatabaseCall(t, config) /\ UNCHANGED NotGlobal
    \/ \E t \in Tasks : InitDatabaseAcquire(t) /\ UNCHANGED NotGlobal
    \/ \E t \in Tasks : InitDatabaseConnectOk(t) /\ UNCHANGED NotGlobal
    \/ \E t \in Tasks : InitDatabaseConnectFail(t) /\ UNCHANGED NotGlobal
    \/ \E t \in Tasks : InitDatabaseMigrated(t) /\ UNCHANGED NotGlobal
    \/ \E t \in Tasks : \E config \in ConfigArgs :
           GlobalGetConnectionCall(t, config) /\ UNCHANGED NotGlobal
    \/ \E t \in Tasks : CloseConnectionCall(t) /\ UNCHANGED NotGlobal
    \/ \E t \in Tasks : CloseConnectionDone(t) /\ UNCHANGED NotGlobal

SpecGlobal == GlobalInit /\ [][GlobalNext]_vars

\* ----------------------------------------------------------- run_migrations
\* what run_migrations leaves alone
NotRun == <<migVars, connVars, userVars, msgVars, poolVars, primLast, bootVars,
            sendVars, globalVars>>

\* the migrations_dir argument: None or a directory
DirArgs == {"", "db/migrations"}

\* if migrations_dir is None: migrations_dir = Path("migrations")
DirOrDefault(dir) == IF dir = "" THEN "migrations" ELSE dir

\* how migrate() ends: it returns, or raises StorageError (Finish)
MigrateOutcomes == {"ok", "StorageError"}

\* run_migrations of task t ends with res
RunReturn(t, res) ==
    /\ runPc' = [runPc EXCEPT ![t] = "idle"]
    /\ runResult' = [runResult EXCEPT ![t] = res]

\* run_migrations(config, migrations_dir) is called
RunMigrationsCall(t, dir) ==
    /\ runPc[t] = "idle"
    /\ runCallsLeft > 0
    /\ runCallsLeft' = runCallsLeft - 1
    /\ runPc' = [runPc EXCEPT ![t] = "connect"]
    /\ migrations_dir' = [migrations_dir EXCEPT ![t] = DirOrDefault(dir)]
    /\ runConnection' = [runConnection EXCEPT ![t] = 0]
    /\ runResult' = [runResult EXCEPT ![t] = "none"]
    /\ UNCHANGED <<runCount, runOpen>>

\* connection = await aiosqlite.connect(config.path)
RunConnectOk(t) ==
    /\ runPc[t] = "connect"
    /\ runCount' = runCount + 1
    /\ runConnection' = [runConnection EXCEPT ![t] = runCount + 1]
    /\ runOpen' = runOpen \cup {runCount + 1}
    /\ runPc' = [runPc EXCEPT ![t] = "migrate"]
    /\ UNCHANGED <<migrations_dir, runResult, runCallsLeft>>

\* aiosqlite.connect raises: except aiosqlite.Error -> StorageError
RunConnectFail(t) ==
    /\ runPc[t] = "connect"
    /\ RunReturn(t, "StorageError")
    /\ UNCHANGED <<migrations_dir, runConnection, runCount, runOpen, runCallsLeft>>

\* the StorageError of migrate() is no aiosqlite.Error: it leaves
\* run_migrations past `await connection.close()` and past the except clause
OpenOnRaise(t) == runOpen

\* await migrator.migrate() returns, or raises StorageError
RunMigrated(t, outcome) ==
    /\ runPc[t] = "migrate"
    /\ IF outcome = "ok"
       THEN /\ runPc' = [runPc EXCEPT ![t] = "close"]
            /\ UNCHANGED <<runOpen, runResult>>
       ELSE /\ RunReturn(t, outcome)
            /\ runOpen' = OpenOnRaise(t)
    /\ UNCHANGED <<migrations_dir, runConnection, runCount, runCallsLeft>>

\* await connection.close(); the function returns
RunClose(t) ==
    /\ runPc[t] = "close"
    /\ runOpen' = runOpen \ {runConnection[t]}
    /\ RunReturn(t, "ok")
    /\ UNCHANGED <<migrations_dir, runConnection, runCount, runCallsLeft>>

RunInit == PoolInit /\ checkSameThread = TRUE

RunNext ==
    \/ \E t \in Tasks : \E dir \in DirArgs :
           RunMigrationsCall(t, dir) /\ UNCHANGED NotRun
    \/ \E t \in Tasks : RunConnectOk(t) /\ UNCHANGED NotRun
    \/ \E t \in Tasks : RunConnectFail(t) /\ UNCHANGED NotRun
    \/ \E t \in Tasks : \E outcome \in MigrateOutcomes :
           RunMigrated(t, outcome) /\ UNCHANGED NotRun
    \/ \E t \in Tasks : RunClose(t) /\ UNCHANGED NotRun

SpecRun == RunInit /\ [][RunNext]_vars

\* ------------------------------------------------------------ claims C1-C4
Last(s) == s[Len(s)]

\* C1: a migrate() called after a migrate() that returned, with the directory
\* unchanged in between, executes no script and inserts no bookkeeping row:
\* schema_migrations holds the rows it held when the second call started.
C1_MigrateIdempotent ==
    \A t \in Tasks :
        afterOk[t] =>
            /\ runLog[t] = <<>>
            /\ insLog[t] = <<>>
            /\ schema_migrations = rows0[t]

\* a second call has returned on a table the first call filled
C1_Witness ==
    \E t \in Tasks :
        /\ afterOk[t] /\ pc[t] = "idle" /\ result[t] = "ok"
        /\ Cardinality(schema_migrations) >= 2

\* C2: a migrate() that started on an empty bookkeeping table and returned has
\* executed the scripts of the directory in ascending order of filename, in
\* whatever order the directory lists them, and get_migration_history()
\* returns the ids in that order.
C2_DeterministicOrder ==
    \A t \in Tasks :
        (rows0[t] = {} /\ pc[t] = "idle" /\ result[t] = "ok") =>
            /\ IsAscending(runLog[t])
            /\ get_migration_history = runLog[t]
            /\ okSince => Range(runLog[t]) = Range(listing)

\* three files listed out of order have been applied
C2_Witness ==
    \E t \in Tasks :
        /\ rows0[t] = {} /\ pc[t] = "idle" /\ result[t] = "ok"
        /\ Len(runLog[t]) = MaxFiles
        /\ ~IsAscending(listing)

\* C3: when the script of pending migration k fails, migrate() raises a
\* StorageError naming k, writes no bookkeeping row for k, and executes and
\* records no migration that sorts after k in that call.
C3_FailedCall(t) ==
    result[t] = "StorageError" =>
        /\ pc[t] = "idle"
        /\ runLog[t] # <<>>
        /\ errId[t] = Last(runLog[t])
        /\ ~UniqueViolation(errId[t])
        /\ \A m \in Range(runLog[t]) \cup Range(insLog[t]) : m <= errId[t]
        /\ errId[t] \notin Range(insLog[t])

C3_FailFast ==
    [][\A t \in Tasks :
          /\ (pc[t] = "script" /\ pc'[t] # "script"
                /\ failAt[Head(pending_migrations[t])] # 0) =>
                 /\ result'[t] = "StorageError"
                 /\ errId'[t] = Head(pending_migrations[t])
                 /\ schema_migrations' = schema_migrations
          /\ C3_FailedCall(t)']_vars

\* a call failed at a migration that is not the last of the directory
C3_Witness ==
    \E t \in Tasks :
        /\ result[t] = "StorageError"
        /\ errId[t] < Max(Range(listing))
        /\ insLog[t] # <<>>

MigratePcs == {"ensure", "read", "script", "insert", "commit"}

\* task u is inside init(): it awaits connect() or migrate()
InInit(u) ==
    /\ op[u] \in {"init", "get_connection"}
    /\ pc[u] \in {"connect"} \cup MigratePcs

\* task u is inside the migrate() of init(): the connection is set, the
\* migrations have not completed
InitMigrating(u) == op[u] \in {"init", "get_connection"} /\ pc[u] \in MigratePcs

\* C5: while the manager has a connection or is getting one, at most one
\* connection has been opened and at most one migrate() started, exactly one
\* of each once the connection is there; the task inside init() holds the lock
\* and every other caller of init() is still waiting for it.
C5_SingleInit ==
    /\ opens <= 1
    /\ initMigrations <= 1
    /\ connection # 0 => (opens = 1 /\ initMigrations = 1)
    /\ \A t \in Tasks : InInit(t) => lock = t
    /\ \A t \in Tasks : \A u \in Tasks : (InInit(t) /\ InInit(u)) => t = u

\* one task is inside the migrate() of init() while another waits in init()
C5_Witness ==
    \E t \in Tasks : \E u \in Tasks :
        /\ t # u
        /\ op[t] = "init" /\ pc[t] \in MigratePcs
        /\ op[u] = "init" /\ pc[u] = "init_lock"
        /\ opens = 1

\* C6: no task holds the live connection while the init() of another task has
\* opened it and is still inside migrate().
C6_MigratedBeforeUse ==
    \A t \in Tasks : \A u \in Tasks :
        (t # u /\ InitMigrating(u)) => ~(held[t] # 0 /\ held[t] = connection)
\* ------------------------------------------------------------ claims C7-C9
\* stored users whose username is `name` ignoring case
Stored(users, name) ==
    {i \in 1..Len(users) : Lower(users[i].username) = Lower(name)}

NoSharedUsername(users) ==
    \A i \in 1..Len(users) : \A j \in 1..Len(users) :
        i # j => Lower(users[i].username) # Lower(users[j].username)

\* C7: in the in-memory user repository a save whose username equals,
\* ignoring case, that of a stored user raises RepositoryError and leaves the
\* store as it is, and after every call no two stored users share a
\* lowercased username.
C7_UsernameUnique ==
    [][/\ (memLast'.n # memLast.n /\ memLast'.op = "save"
             /\ Stored(mem_users, memLast'.name) # {}) =>
              /\ memLast'.kind = "RepositoryError"
              /\ mem_users' = mem_users
              /\ user_next_id' = user_next_id
       /\ NoSharedUsername(mem_users')]_vars

\* a save of a case variant of a stored username was refused
C7_Witness ==
    /\ memLast.op = "save"
    /\ memLast.kind = "RepositoryError"
    /\ \E i \in Stored(mem_users, memLast.name) :
           mem_users[i].username # memLast.name

\* C8, in-memory repository: a get_or_create that follows a get_or_create of
\* the same username or a case variant returns a user with the same id, and
\* exactly one user with that lowercased username is stored.
C8_MemGetOrCreateOnce ==
    [][(memLast.op = "get_or_create" /\ memLast'.n # memLast.n
          /\ memLast'.op = "get_or_create"
          /\ Lower(memLast'.name) = Lower(memLast.name)) =>
           /\ memLast'.kind = "user"
           /\ memLast'.id = memLast.id
           /\ Cardinality(Stored(mem_users', memLast'.name)) = 1]_vars

\* C8, SQLite repository: a get_or_create returns a user, and exactly one row
\* with that lowercased username is stored.
C8_SqlGetOrCreateOnce ==
    \A t \in Tasks :
        sqlLast[t].op = "get_or_create" =>
            /\ sqlLast[t].kind = "user"
            /\ Cardinality({r \in users_table :
                              r.username = Lower(sqlLast[t].name)}) = 1

\* C8: two sequential get_or_create calls with a username (or a case variant)
\* return users with the same id, the second does not raise, and exactly one
\* user with that lowercased username is stored, in either repository.
C8_GetOrCreateOnce ==
    C8_MemGetOrCreateOnce /\ [][C8_SqlGetOrCreateOnce']_vars

\* C9: when two tasks have called SQLiteUserRepository.get_or_create with
\* usernames equal ignoring case, at most one row with that username exists,
\* and each task got a user or a RepositoryError, never another error.
C9_RaceLoserRepositoryError ==
    \A t \in Tasks : \A u \in Tasks :
        (/\ t # u
         /\ sqlLast[t].op = "get_or_create"
         /\ sqlLast[u].op = "get_or_create"
         /\ Lower(sqlLast[t].name) = Lower(sqlLast[u].name)) =>
            /\ Cardinality({r \in users_table :
                              r.username = Lower(sqlLast[t].name)}) <= 1
            /\ sqlLast[t].kind \in {"user", "RepositoryError"}
            /\ sqlLast[u].kind \in {"user", "RepositoryError"}
            /\ ~(sqlLast[t].kind = "RepositoryError"
                   /\ sqlLast[u].kind = "RepositoryError")
\* --------------------------------------------------------------- claim C10
\* the user's stored messages with a timestamp above, and not below, ts
Newer(user_id, ts) ==
    {k \in 1..Len(mem_messages) :
        mem_messages[k].user_id = user_id /\ mem_messages[k].timestamp > ts}

NotOlder(user_id, ts) ==
    {k \in 1..Len(mem_messages) :
        mem_messages[k].user_id = user_id /\ mem_messages[k].timestamp >= ts}

\* `res` is the page [offset, offset + limit) of the descending list of the
\* user's stored messages
IsPage(res, user_id, limit, offset) ==
    LET n == Cardinality(NotOlder(user_id, 0))
        rest == IF n > offset THEN n - offset ELSE 0
    IN  /\ Len(res) = IF limit < rest THEN limit ELSE rest
        /\ \A i \in 1..Len(res) :
               /\ res[i].user_id = user_id
               /\ res[i] \in Range(mem_messages)
               /\ Cardinality(Newer(user_id, res[i].timestamp)) <= offset + i - 1
               /\ Cardinality(NotOlder(user_id, res[i].timestamp)) >= offset + i
        /\ \A i \in 1..Len(res) : \A j \in 1..Len(res) :
               i < j => (res[i].timestamp >= res[j].timestamp /\ res[i] # res[j])

\* C10, in-memory repository: find_by_user_id returns the page
\* [offset, offset + limit) of the user's messages, most recent first.
C10_MemPage ==
    [][msgLast'.n # msgLast.n =>
          IsPage(msgLast'.result, msgLast'.user_id, msgLast'.limit,
                 msgLast'.offset)]_vars

\* C10: find_by_user_id(user_id, limit, offset) returns only messages of that
\* user, by timestamp descending, and exactly the slice [offset, offset+limit)
\* of the user's full descending list, in either repository.
C10_MessageOrdering ==
    /\ C10_MemPage
    /\ [][sqlMsgLast'.op = "find_by_user_id" => sqlMsgLast'.kind = "messages"]_vars
\* ----------------------------------------------------- claims C11-C15
\* C11: schema_migrations holds at most one row per migration_id, in every
\* state, also of migrate() runs interleaved against the same database.
C11_UniqueMigrationId ==
    \A r1 \in schema_migrations : \A r2 \in schema_migrations :
        r1.migration_id = r2.migration_id => r1 = r2

\* a run lost the race: its script ran, its INSERT met the row of the other run
C11_Witness ==
    \E t \in Tasks :
        /\ pc[t] = "idle"
        /\ result[t] = "StorageError"
        /\ errId[t] # 0
        /\ failAt[errId[t]] = 0
        /\ \E r \in schema_migrations : r.migration_id = errId[t]
\* C12: the rows of schema_migrations taken in ascending insertion id have
\* strictly increasing migration_id, in every state of any sequence of
\* migrate() runs, also with files added to the directory between runs.
C12_RowsInFilenameOrder == IsAscending(get_migration_history)

\* C13: once migrate() has returned or raised, a statement of a migration
\* script has taken effect only if the bookkeeping row of that migration is
\* committed.
C13_ScriptAndRowOneUnit ==
    AllIdle =>
        \A m \in FileIds :
            stmtsDone[m] > 0 => \E r \in schema_migrations : r.migration_id = m

\* C15: of two migrate() runs interleaved against the same database and
\* directory, neither executes a script the other has executed.
C15_ExactlyOncePerMigration ==
    \A t \in Tasks : \A u \in Tasks :
        (t # u /\ pc[t] # "idle" /\ pc[u] # "idle")
            => Range(runLog[t]) \cap Range(runLog[u]) = {}
\* C14: at most one statement executes against the connection at a time,
\* also when several repositories built on AsyncSQLiteRepositoryBase share
\* the connection and are called from concurrent tasks.
C14_OneStatementAtATime ==
    Cardinality({i \in Repos : poolRunning[i] # 0}) <= 1
\* ----------------------------------------------------- claims C16-C18
\* task t, last in another operation, calls execute() in this step
ExecuteStarts(t) == op[t] # "execute" /\ op'[t] = "execute"

\* C16: on a manager that never opened a connection the connection accessor
\* and execute / fetch_all / fetch_one raise StorageError and leave the
\* manager as it is: no connection is opened, no migration is run.
C16_NoAutoInit ==
    [][\A t \in Tasks :
          (connCount = 0 /\ pc[t] = "idle" /\ op'[t] = "execute"
              /\ callsLeft' # callsLeft)
          => /\ pc'[t] = "idle"
             /\ result'[t] = "StorageError"
             /\ UNCHANGED <<lock, connection, connCount, openConns, opens,
                            initMigrations, held, dbVars>>]_vars

\* execute() was called on a manager that has not opened a connection
C16_Witness ==
    \E t \in Tasks :
        /\ connCount = 0
        /\ op[t] = "execute"
        /\ pc[t] = "idle"
        /\ result[t] = "StorageError"

\* C17: close() closes the open connection and clears the reference; without
\* a connection the accessor raises StorageError and hands out nothing; the
\* next init() opens a new connection and starts migrate(); close() on a
\* manager without a connection changes nothing.
C17_CloseThenReinit ==
    [][\A t \in Tasks :
          /\ (pc[t] = "closing" /\ pc'[t] = "idle")
                => (connection' = 0 /\ connection \notin openConns' /\ lock' = 0)
          /\ (connection = 0 /\ ExecuteStarts(t))
                => (pc'[t] = "idle" /\ result'[t] = "StorageError" /\ held'[t] = 0)
          /\ (pc[t] # "executing" /\ pc'[t] = "executing")
                => (connection # 0 /\ held'[t] = connection)
          /\ (connection = 0 /\ pc[t] = "init_lock" /\ pc'[t] # "init_lock")
                => pc'[t] = "connect"
          /\ (pc[t] = "connect" /\ pc'[t] = "ensure")
                => /\ connection' \notin 1..connCount
                   /\ connection' \in openConns'
                   /\ initMigrations' = initMigrations + 1
          /\ (pc[t] = "close_lock" /\ pc'[t] = "idle")
                => UNCHANGED <<lock, connection, connCount, openConns, held>>]_vars

\* a connection was closed and init() has opened the next one
C17_Witness ==
    /\ connCount = 2
    /\ connection = 2
    /\ openConns = {2}
    /\ \E t \in Tasks : op[t] = "init" /\ pc[t] \in MigratePcs

\* the members of the error taxonomy (domain/errors/exceptions.py)
Taxonomy ==
    {"ChatAppError", "ProviderError", "ProviderNotFoundError",
     "ConfigurationError", "AuthenticationError", "StorageError",
     "ValidationError", "RepositoryError"}

\* C18: whatever is raised while a get_connection() block is active reaches
\* the caller as a member of the error taxonomy.
C18_BlockFaultsTranslated ==
    \A t \in Tasks :
        (op[t] = "get_connection" /\ pc[t] = "idle")
            => result[t] \in Taxonomy \cup {"none", "ok"}
\* ----------------------------------------------------- claims C19-C20
InsertOps ==
    {"SQLiteRepositoryBase._insert_returning_id",
     "AsyncSQLiteRepositoryBase._insert_returning_id"}

\* the driver raised in the last call of _insert_returning_id
InsertRaised ==
    /\ primLast.op \in InsertOps
    /\ primLast.fault # "none"
    /\ primLast.step \in {"execute", "commit"}

BoundaryOps ==
    {"SQLiteRepositoryBase._execute", "SQLiteRepositoryBase._fetchone",
     "SQLiteRepositoryBase._fetchall", "SQLiteRepositoryBase._insert_returning_id",
     "DatabaseConnection.execute", "DatabaseConnection.fetch_all",
     "DatabaseConnection.fetch_one"}

\* C20: a driver fault raised at any step of a repository primitive or of the
\* manager's execute / fetch_all / fetch_one reaches the caller as
\* StorageError or RepositoryError.
C20_NoRawDriverException ==
    primLast.op \in BoundaryOps
        => primLast.kind \in {"ok", "StorageError", "RepositoryError"}
\* --------------------------------------------------------------- claim C21
\* C21: migrate() with a migrations directory that does not exist returns; it
\* has created schema_migrations and executed no script, and the history read
\* afterwards is empty.
C21_MissingDirTolerated ==
    \A t \in Tasks :
        (~dirExists /\ op[t] = "migrate" /\ pc[t] = "idle")
            => /\ result[t] = "ok"
               /\ tableExists
               /\ runLog[t] = <<>>
               /\ \A m \in FileIds : stmtsDone[m] = 0
               /\ get_migration_history = <<>>

\* migrate() has returned where there is no migrations directory
C21_Witness ==
    \E t \in Tasks :
        ~dirExists /\ op[t] = "migrate" /\ pc[t] = "idle" /\ result[t] = "ok"
\* ----------------------------------------------------- claims C22-C24
\* C22: SQLiteUserRepository.save and SQLiteMessageRepository.save execute
\* exactly one INSERT before they return, and the entity they return carries
\* the row id the store assigned as its id.
C22_SaveInsertsOnce ==
    /\ \A t \in Tasks :
           sqlLast[t].op = "save"
               => /\ sqlLast[t].kind = "user"
                  /\ sqlLast[t].stmts = 1
                  /\ sqlLast[t].idKind = "int"
    /\ sqlMsgLast.op = "save"
           => /\ sqlMsgLast.kind = "message"
              /\ sqlMsgLast.stmts = 1
              /\ sqlMsgLast.idKind = "int"

\* C23: find_by_id and find_by_username of the user repository and find_by_id
\* of the message repository return None when no row matches; they do not
\* raise for a missing row.
C23_AbsenceIsNone ==
    /\ \A t \in Tasks :
           (/\ sqlLast[t].op \in {"find_by_id", "find_by_username"}
            /\ users_table = {})
               => sqlLast[t].kind = "None"
    /\ (sqlMsgLast.op = "find_by_id" /\ statements = 0)
           => sqlMsgLast.kind = "None"

\* C24: save(message) followed by find_by_id of the returned id yields a
\* message with the same role, an equal timestamp and the same user_id,
\* provider and content.
C24_RoleTimestampRoundTrip ==
    sqlMsgLast.op = "save, find_by_id"
        => /\ sqlMsgLast.kind = "message"
           /\ sqlMsgLast.got = sqlMsgLast.sent

\* ----------------------------------------------------- claims C27-C28
\* init() of task t raises in this step
InitRaises(t) ==
    /\ op[t] = "init"
    /\ pc[t] # "idle"
    /\ pc'[t] = "idle"
    /\ result'[t] = "StorageError"

\* C27: an init() that raises, because the open fails or because migrate()
\* fails, leaves the manager without a connection: the accessor still raises
\* StorageError, no connection stays open, and the next init() opens again.
C27_FailedInitUninitialised ==
    [][\A t \in Tasks :
          InitRaises(t) => (connection' = 0 /\ openConns' = {})]_vars

\* C28: a save of an entity with id 0 (the step that advances _next_id) gives
\* it an id that no stored entity holds, and every entity stored before the
\* save is stored after it; for users and for messages.
C28_FreshIdOnSave ==
    [][/\ (user_next_id' = user_next_id + 1)
            => /\ \A i \in 1..Len(mem_users) : mem_users[i].id # user_next_id
               /\ Range(mem_users) \subseteq Range(mem_users')
       /\ (message_next_id' = message_next_id + 1)
            => /\ \A i \in 1..Len(mem_messages) :
                      mem_messages[i].id # message_next_id
               /\ Range(mem_messages) \subseteq Range(mem_messages')]_vars

\* ----------------------------------------------------------- claim C25
\* C25: between resets the shared container is built at most once and every
\* caller of get_container_async() / get_container() is handed the same
\* container, callers that overlap before the first build ended included.
C25_SingleContainer ==
    /\ builds <= 1
    /\ Cardinality(received) <= 1

\* ----------------------------------------------------------- claim C26
\* what the current (or last) call of stream_response has persisted
PersistedByCall == SubSeq(persisted, persisted0 + 1, Len(persisted))

AssistantMessages(msgs) == FilterSeq(msgs, {m \in Range(msgs) : m.role = "ASSISTANT"})

\* C26: once the provider has been invoked the user message of the call is
\* persisted; an assistant message is persisted only after the stream has
\* completed, at most one, exactly one when the call returns, and its content
\* is the concatenation of the tokens yielded, in order; when the provider
\* fails no assistant message is persisted, the user message stays and the
\* caller receives a ProviderError.
C26_PersistAroundStream ==
    LET mine == PersistedByCall
        assistant == AssistantMessages(mine)
    IN  /\ provider # "none"
            => /\ mine # <<>>
               /\ mine[1] = [role |-> "USER", content |-> user_input]
        /\ Len(assistant) <= 1
        /\ assistant # <<>>
            => /\ provider = "completed"
               /\ Len(mine) = 2
               /\ mine[2] = [role |-> "ASSISTANT", content |-> Join(yielded)]
        /\ sendResult = "ok" => Len(assistant) = 1
        /\ provider = "failed"
            => /\ assistant = <<>>
               /\ IsProviderError(sendResult)

\* a call has returned after the provider streamed two tokens
C26_Witness ==
    /\ sendResult = "ok"
    /\ Len(yielded) >= 2
    /\ Len(AssistantMessages(PersistedByCall)) = 1

\* ----------------------------------------------------------- claim C29
\* C29: whenever init_database(config) opens a connection it connects to the
\* database path of the config passed to that call (of get_config() when
\* None is passed), also after a close_connection().
C29_ConnectsToPassedConfig ==
    lastConnect # None
        => lastConnect[1].path = database_path(ConfigOrDefault(lastConnect[1].config))

\* ----------------------------------------------------------- claim C30
\* C30: when run_migrations has returned or raised, the connection it opened
\* is closed, also when migrate() raised StorageError.
C30_ConnectionClosed ==
    \A t \in Tasks :
        (runPc[t] = "idle" /\ runResult[t] # "none")
            => runConnection[t] \notin runOpen
====
